---------------------------- MODULE Spec2Model ----------------------------
(***************************************************************************)
(* A model of raknet_shim: the RakNet ("LEG") connection engine            *)
(* (src/raknet), and the relay (Shim) event loop that owns the bridges     *)
(* (src/main.rs, src/bridge.rs).                                           *)
(*                                                                         *)
(* u32 values are modelled with U32Bits bits: every wrapping operation of  *)
(* the source is taken modulo 2^U32Bits, and u32::max_value() is U32Max.   *)
(* Option<T> is a sequence of length 0 (None) or 1 (Some(x)); a Vec is a   *)
(* sequence (0-based index i of the source is i + 1 here).                 *)
(***************************************************************************)
EXTENDS Integers, Sequences, FiniteSets, TLC

\* ------------------------------------------------------------------ widths

\* Width of the model's u32 (scaled down from 32).
U32Bits == 3

U32Mod == 2 ^ U32Bits

\* u32::max_value()
U32Max == U32Mod - 1

U32 == 0 .. U32Max

wrapping_add(a, b) == (a + b) % U32Mod

wrapping_sub(a, b) == ((a - b) + U32Mod) % U32Mod

\* `u32::max_value() / 2`, the window of recv.rs:84, recv.rs:107.
HalfWindow == U32Max \div 2

\* ------------------------------------------------------------------ options

None == << >>

Some(x) == << x >>

\* ------------------------------------------------------------------ bridge.rs

\* MessageType (bridge.rs:17-26)
OpenConnectionRequest == 9

OpenConnectionReply == 10

NoFreeIncomingConnections == 18

DisconnectNotification == 19

\* ------------------------------------------------------------------ packet.rs

\* ReliabilityData: <<kind>> or <<kind, ordinal>>.
RD_Unreliable == << "Unreliable" >>

RD_UnreliableSequenced(ord) == << "UnreliableSequenced", ord >>

RD_Reliable == << "Reliable" >>

RD_ReliableOrdered(ord) == << "ReliableOrdered", ord >>

\* impl From<ReliabilityData> for Reliability
ReliabilityFrom(rel_data) == rel_data[1]

\* impl From<RaknetPacket> for Packet
PacketFrom(rak_packet) ==
    [reliability |-> ReliabilityFrom(rak_packet.rel_data), data |-> rak_packet.data]

RaknetPacket(message_number, rel_data, split_packet_info, data) ==
    [message_number |-> message_number, rel_data |-> rel_data,
     split_packet_info |-> split_packet_info, data |-> data]

SplitPacketInfo(id, index, count) == [id |-> id, index |-> index, count |-> count]

\* ------------------------------------------------------------------ comp.rs

\* An integer of `size` bytes is the sequence of its bytes, lowest first:
\* (v >> 8*j) & 0xff is bytes[j + 1].  A bit stream is a sequence of 0 and 1.

\* BitWriter::write of a u8: eight bits, the highest first.
write_u8(byte) == [k \in 1 .. 8 |-> (byte \div (2 ^ (8 - k))) % 2]

\* BitWriter::write_bits(value, count): the low `count` bits, the highest first.
write_bits(value, count) == [k \in 1 .. count |-> (value \div (2 ^ (count - k))) % 2]

\* The writer dropped: the last byte is filled up with zero bits.
Flushed(bits) == bits \o [k \in 1 .. ((8 - (Len(bits) % 8)) % 8) |-> 0]

\* The inner loop of serialize (comp.rs:20-22, 46-48): bytes j = from .. count - 1.
RECURSIVE WriteLowBytes(_, _, _)
WriteLowBytes(bytes, from, count) ==
    IF from >= count THEN << >>
    ELSE write_u8(bytes[from + 1]) \o WriteLowBytes(bytes, from + 1, count)

\* Serialize for Compressed<u16> and Compressed<u32> from iteration i of the
\* outer loop on (comp.rs:13-35, 39-61); size is Len(bytes).
RECURSIVE Compressed_serialize_from(_, _)
Compressed_serialize_from(bytes, i) ==
    IF i < Len(bytes) - 1
    THEN IF bytes[Len(bytes) - i] = 0
         THEN << 1 >> \o Compressed_serialize_from(bytes, i + 1)
         ELSE << 0 >> \o WriteLowBytes(bytes, 0, Len(bytes) - i)
    ELSE IF bytes[1] \div 16 = 0
         THEN << 1 >> \o write_bits(bytes[1] % 16, 4)
         ELSE << 0 >> \o write_u8(bytes[1])

Compressed_serialize(bytes) == Compressed_serialize_from(bytes, 0)

\* BitReader::read_bits(count) at the head of the stream: the number read.
RECURSIVE read_bits(_, _)
read_bits(bits, count) ==
    IF count = 0 THEN 0 ELSE 2 * read_bits(bits, count - 1) + bits[count]

\* The inner loop of deserialize (comp.rs:75-77): a byte is read for each
\* j = from .. size - 1 and or-ed into the result shifted by 8*j, so it becomes
\* byte j of the result.
RECURSIVE ReadBytesAt(_, _, _, _)
ReadBytesAt(bits, from, size, res) ==
    IF from >= size THEN [res |-> "Ok", value |-> res, rest |-> bits]
    ELSE IF Len(bits) < 8 THEN [res |-> "Err", value |-> res, rest |-> bits]
    ELSE ReadBytesAt(SubSeq(bits, 9, Len(bits)), from + 1, size,
                     [res EXCEPT ![from + 1] = read_bits(bits, 8)])

\* Deserialize for Compressed<T> from iteration i of the outer loop on
\* (comp.rs:69-87).
RECURSIVE Compressed_deserialize_from(_, _, _)
Compressed_deserialize_from(bits, size, i) ==
    IF Len(bits) < 1
    THEN [res |-> "Err", value |-> [j \in 1 .. size |-> 0], rest |-> bits]
    ELSE IF i < size - 1
    THEN IF bits[1] = 1
         THEN Compressed_deserialize_from(Tail(bits), size, i + 1)
         ELSE ReadBytesAt(Tail(bits), i, size, [j \in 1 .. size |-> 0])
    ELSE IF bits[1] = 1
         THEN IF Len(bits) < 5
              THEN [res |-> "Err", value |-> [j \in 1 .. size |-> 0], rest |-> Tail(bits)]
              ELSE [res |-> "Ok",
                    value |-> [j \in 1 .. size |-> IF j = 1 THEN read_bits(Tail(bits), 4) ELSE 0],
                    rest |-> SubSeq(bits, 6, Len(bits))]
         ELSE ReadBytesAt(Tail(bits), 0, 1, [j \in 1 .. size |-> 0])

Compressed_deserialize(bits, size) == Compressed_deserialize_from(bits, size, 0)

\* ------------------------------------------------------------------ rangelist.rs

Range(min, max) == [min |-> min, max |-> max]

RemoveAt(s, i) == SubSeq(s, 1, i - 1) \o SubSeq(s, i + 1, Len(s))

InsertAt(s, i, x) == SubSeq(s, 1, i - 1) \o << x >> \o SubSeq(s, i, Len(s))

\* The code after the loop when try_remove = Some(i) (rangelist.rs:67-72);
\* `ranges` already has the extended range, i is 1-based.
RangeList_try_remove(ranges, i, item) ==
    IF ranges[i].min = item - 1 THEN RemoveAt(ranges, i) ELSE ranges

\* The loop of RangeList::insert from (1-based) position i, with everything
\* that follows it.  `item - 1` is only evaluated where range.min <= item and
\* range.max < item, so item >= 1 and the subtraction does not wrap.
RECURSIVE RangeList_insert_from(_, _, _)
RangeList_insert_from(ranges, i, item) ==
    IF i > Len(ranges)
    THEN Append(ranges, Range(item, item))
    ELSE LET range == ranges[i] IN
         IF range.min <= item
         THEN IF range.max >= item
              THEN ranges
              ELSE IF range.max = item - 1
                   THEN LET extended == [ranges EXCEPT ![i].max = item] IN
                        IF i = Len(ranges)
                        THEN extended
                        ELSE RangeList_try_remove(extended, i + 1, item)
                   ELSE RangeList_insert_from(ranges, i + 1, item)
         ELSE IF range.min - item = 1
              THEN [ranges EXCEPT ![i].min = item]
              ELSE InsertAt(ranges, i, Range(item, item))

RangeList_new == << >>

RangeList_insert(ranges, item) == RangeList_insert_from(ranges, 1, item)

RangeList_is_empty(ranges) == ranges = << >>

RangeList_clear(ranges) == << >>

\* The number of ranges of the list that hold item.
RangeList_count(ranges, item) ==
    Cardinality({i \in 1 .. Len(ranges) : ranges[i].min <= item /\ item <= ranges[i].max})

\* RangeList::len (rangelist.rs:23-29).  `range.max - range.min + 1` is u32
\* arithmetic: for the range of every u32 it overflows, which panics in a
\* build with overflow checks and wraps to 0 in one without.
RECURSIVE RangeList_len_from(_, _, _)
RangeList_len_from(ranges, i, overflow_checks) ==
    LET Add(term, rest) ==
            IF rest.res = "panic" THEN rest ELSE [res |-> "Ok", len |-> term + rest.len]
    IN IF i > Len(ranges)
       THEN [res |-> "Ok", len |-> 0]
       ELSE IF overflow_checks /\ ranges[i].max - ranges[i].min + 1 > U32Max
       THEN [res |-> "panic", len |-> 0]
       ELSE Add((ranges[i].max - ranges[i].min + 1) % U32Mod,
                RangeList_len_from(ranges, i + 1, overflow_checks))

RangeList_len(ranges, overflow_checks) == RangeList_len_from(ranges, 1, overflow_checks)

\* The values min..=max of one range, ascending.
RECURSIVE RangeInclusive(_, _)
RangeInclusive(min, max) ==
    IF min > max THEN << >> ELSE << min >> \o RangeInclusive(min + 1, max)

\* RangeList::into_iter with Items::next (rangelist.rs:87-113): the values of
\* the ranges, range after range.
RECURSIVE RangeList_into_iter_from(_, _)
RangeList_into_iter_from(ranges, i) ==
    IF i > Len(ranges) THEN << >>
    ELSE RangeInclusive(ranges[i].min, ranges[i].max)
         \o RangeList_into_iter_from(ranges, i + 1)

RangeList_into_iter(ranges) == RangeList_into_iter_from(ranges, 1)

\* ------------------------------------------------------------------ recv.rs

\* ReceivePart::default()
ReceivePart_default ==
    [unrel_seq_index |-> 0, rel_ord_index |-> 0,
     out_of_order_packets |-> << >>, split_packet_queue |-> << >>]

\* A remove that clears the map.
MapRemove_all(m, k) == [x \in {} |-> m[x]]

\* HashMap::remove
MapRemove(m, k) == [x \in (DOMAIN m) \ {k} |-> m[x]]

\* HashMap::insert
MapInsert(m, k, v) == [x \in (DOMAIN m) \cup {k} |-> IF x = k THEN v ELSE m[x]]

\* `assembled` put together from the last part to the first.
RECURSIVE Assemble_reversed(_, _)
Assemble_reversed(parts, i) ==
    IF i > Len(parts) THEN << >> ELSE Assemble_reversed(parts, i + 1) \o parts[i][1]

\* `assembled`: the parts in index order, each one extended onto the result.
RECURSIVE Assemble(_, _)
Assemble(parts, i) ==
    IF i > Len(parts) THEN << >> ELSE parts[i][1] \o Assemble(parts, i + 1)

\* The split stage of the loop body (recv.rs:41-75).  outcome "pass": the
\* packet goes on with `data`; "wait": continue (chunk stored); "panic": the
\* assert or an index out of bounds.
SplitStage(queue, rak_packet) ==
    IF rak_packet.split_packet_info = None
    THEN [outcome |-> "pass", queue |-> queue, data |-> rak_packet.data]
    ELSE LET split == rak_packet.split_packet_info[1] IN
         IF ~(split.count > 1)
         THEN [outcome |-> "panic", queue |-> queue, data |-> rak_packet.data]
         ELSE IF split.id \notin DOMAIN queue
              THEN IF split.index >= split.count
                   THEN [outcome |-> "panic", queue |-> queue, data |-> rak_packet.data]
                   ELSE [outcome |-> "wait",
                         queue |-> MapInsert(queue, split.id,
                                     [i \in 1 .. split.count |->
                                        IF i = split.index + 1 THEN Some(rak_packet.data) ELSE None]),
                         data |-> rak_packet.data]
              ELSE LET parts == queue[split.id] IN
                   IF split.index >= Len(parts)
                   THEN [outcome |-> "panic", queue |-> queue, data |-> rak_packet.data]
                   ELSE LET filled == [parts EXCEPT ![split.index + 1] = Some(rak_packet.data)]
                            ready == \A i \in 1 .. Len(filled) : filled[i] # None
                        IN IF ready
                           THEN [outcome |-> "pass", queue |-> MapRemove(queue, split.id),
                                 data |-> Assemble(filled, 1)]
                           ELSE [outcome |-> "wait",
                                 queue |-> MapInsert(queue, split.id, filled),
                                 data |-> rak_packet.data]

\* Drain with a slip: the queued packet is released but rel_ord_index is not
\* moved past it.
Drain_stuck(index, out_of_order, pushed) ==
    IF index \in DOMAIN out_of_order
    THEN [rel_ord_index |-> index, out_of_order_packets |-> MapRemove(out_of_order, index),
          pushed |-> Append(pushed, out_of_order[index])]
    ELSE [rel_ord_index |-> index, out_of_order_packets |-> out_of_order, pushed |-> pushed]

\* Drain that stops after one queued packet.
Drain_once(index, out_of_order, pushed) ==
    IF index \in DOMAIN out_of_order
    THEN [rel_ord_index |-> wrapping_add(index, 1),
          out_of_order_packets |-> MapRemove(out_of_order, index),
          pushed |-> Append(pushed, out_of_order[index])]
    ELSE [rel_ord_index |-> index, out_of_order_packets |-> out_of_order, pushed |-> pushed]

\* The drain loop (recv.rs:96-104): release the queued packets directly after
\* rel_ord_index.  Returns the index, the queue and the packets pushed.
RECURSIVE Drain(_, _, _)
Drain(index, out_of_order, pushed) ==
    IF index \in DOMAIN out_of_order
    THEN Drain(wrapping_add(index, 1), MapRemove(out_of_order, index),
               Append(pushed, out_of_order[index]))
    ELSE [rel_ord_index |-> index, out_of_order_packets |-> out_of_order, pushed |-> pushed]

\* The window compared against half of 2^32 rather than u32::MAX / 2.
UnrelSeqAccepts_half(ord, unrel_seq_index) ==
    wrapping_sub(ord, unrel_seq_index) < U32Mod \div 2

\* The window with the ordinal just handed up let through again.
UnrelSeqAccepts_resend(ord, unrel_seq_index) ==
    \/ wrapping_sub(ord, unrel_seq_index) < HalfWindow
    \/ ord = wrapping_sub(unrel_seq_index, 1)

\* The window without the wrap: only ordinals from the index upwards.
UnrelSeqAccepts_nowrap(ord, unrel_seq_index) ==
    ord >= unrel_seq_index /\ ord - unrel_seq_index < HalfWindow

\* recv.rs:84: is an UnreliableSequenced ordinal accepted
UnrelSeqAccepts(ord, unrel_seq_index) ==
    wrapping_sub(ord, unrel_seq_index) < HalfWindow

\* The holding window taken as half of 2^32 rather than u32::MAX / 2.
RelOrdTooEarly_half(ord, rel_ord_index) ==
    wrapping_sub(ord, rel_ord_index) < U32Mod \div 2

\* recv.rs:107: is a ReliableOrdered ordinal (other than the index) too early
RelOrdTooEarly(ord, rel_ord_index) ==
    wrapping_sub(ord, rel_ord_index) < HalfWindow

\* The test met only by a payload that is the id and nothing more.
IsDisconnect_exact(data) == data = << DisconnectNotification >>

\* recv.rs:77: the payload is a disconnect notification
IsDisconnect(data) == Len(data) >= 1 /\ data[1] = DisconnectNotification

\* The ordering stage (recv.rs:82-122) for a packet that is no disconnect
\* notification: the new indices and queue, the packets pushed and the path.
OrderStage(recv, rak_packet) ==
    LET kind == rak_packet.rel_data[1]
        packet == PacketFrom(rak_packet)
        Released(d) ==
            [recv |-> [recv EXCEPT !.rel_ord_index = d.rel_ord_index,
                                   !.out_of_order_packets = d.out_of_order_packets],
             pushed |-> d.pushed, path |-> "delivered"]
    IN
    IF kind = "UnreliableSequenced"
    THEN IF UnrelSeqAccepts(rak_packet.rel_data[2], recv.unrel_seq_index)
         THEN [recv |-> [recv EXCEPT !.unrel_seq_index =
                           wrapping_add(rak_packet.rel_data[2], 1)],
               pushed |-> << packet >>, path |-> "delivered"]
         ELSE [recv |-> recv, pushed |-> << >>, path |-> "stale"]
    ELSE IF kind = "ReliableOrdered"
    THEN IF rak_packet.rel_data[2] = recv.rel_ord_index
         THEN Released(Drain(wrapping_add(recv.rel_ord_index, 1),
                             recv.out_of_order_packets, << packet >>))
         ELSE IF RelOrdTooEarly(rak_packet.rel_data[2], recv.rel_ord_index)
              THEN [recv |-> [recv EXCEPT !.out_of_order_packets =
                                MapInsert(recv.out_of_order_packets,
                                          rak_packet.rel_data[2], packet)],
                    pushed |-> << >>, path |-> "early"]
              ELSE [recv |-> recv, pushed |-> << >>, path |-> "duplicate"]
    ELSE [recv |-> recv, pushed |-> << packet >>, path |-> "delivered"]

\* recv.rs:34-39: the message numbers of reliable packets are acknowledged
AckStage(acks, rak_packet) ==
    IF rak_packet.rel_data[1] \in {"Reliable", "ReliableOrdered"}
    THEN RangeList_insert(acks, rak_packet.message_number)
    ELSE acks

\* One iteration of the loop of process_incoming_packets (recv.rs:33-123).
\* s = [recv, acks, closed, packets, paths, panicked].
LoopBody(s, rak_packet) ==
    LET Ordered(acks, o) ==
            [s EXCEPT !.acks = acks, !.recv = o.recv, !.packets = @ \o o.pushed,
                      !.paths = Append(@, o.path)]
        After(acks, sp) ==
            IF sp.outcome = "panic"
            THEN [s EXCEPT !.acks = acks, !.panicked = TRUE, !.paths = Append(@, "panic")]
            ELSE IF sp.outcome = "wait"
            THEN [s EXCEPT !.acks = acks, !.recv.split_packet_queue = sp.queue,
                           !.paths = Append(@, "split_wait")]
            ELSE IF IsDisconnect(sp.data)
            THEN [s EXCEPT !.acks = acks, !.recv.split_packet_queue = sp.queue,
                           !.closed = TRUE, !.paths = Append(@, "disconnect")]
            ELSE Ordered(acks, OrderStage([s.recv EXCEPT !.split_packet_queue = sp.queue],
                                          [rak_packet EXCEPT !.data = sp.data]))
    IN After(AckStage(s.acks, rak_packet),
             SplitStage(s.recv.split_packet_queue, rak_packet))

RECURSIVE process_incoming_loop(_, _, _)
process_incoming_loop(s, rak_packets, i) ==
    IF i > Len(rak_packets) \/ s.panicked
    THEN s
    ELSE process_incoming_loop(LoopBody(s, rak_packets[i]), rak_packets, i + 1)

\* ReceivePart::process_incoming_packets.  `paths` names, per sub-packet, the
\* way it left the loop body.
process_incoming_packets(recv, rak_packets, acks, closed) ==
    process_incoming_loop(
        [recv |-> recv, acks |-> acks, closed |-> closed, packets |-> << >>,
         paths |-> << >>, panicked |-> FALSE],
        rak_packets, 1)


\* ------------------------------------------------------------------ send.rs

\* Width of the model's u16 (scaled down from 16).
U16Bits == 2

U16Mod == 2 ^ U16Bits

MTU_SIZE == 1228

UDP_HEADER_SIZE == 28

MAX_PACKET_SIZE == MTU_SIZE - UDP_HEADER_SIZE

\* SendPart::new
SendPart_new(address) ==
    [address |-> address, message_number |-> 0, split_packet_index |-> 0,
     unrel_seq_index |-> 0, rel_ord_index |-> 0]

\* A rel_data that numbers both ordered kinds from unrel_seq_index.
SendPart_rel_data_shared(send, rel) ==
    IF rel = "UnreliableSequenced"
    THEN [send |-> [send EXCEPT !.unrel_seq_index = wrapping_add(@, 1)],
          rel_data |-> RD_UnreliableSequenced(send.unrel_seq_index)]
    ELSE IF rel = "ReliableOrdered"
    THEN [send |-> [send EXCEPT !.unrel_seq_index = wrapping_add(@, 1)],
          rel_data |-> RD_ReliableOrdered(send.unrel_seq_index)]
    ELSE IF rel = "Reliable"
    THEN [send |-> send, rel_data |-> RD_Reliable]
    ELSE [send |-> send, rel_data |-> RD_Unreliable]

\* SendPart::rel_data: the ReliabilityData and the counters after it.
SendPart_rel_data(send, rel) ==
    IF rel = "UnreliableSequenced"
    THEN [send |-> [send EXCEPT !.unrel_seq_index = wrapping_add(@, 1)],
          rel_data |-> RD_UnreliableSequenced(send.unrel_seq_index)]
    ELSE IF rel = "ReliableOrdered"
    THEN [send |-> [send EXCEPT !.rel_ord_index = wrapping_add(@, 1)],
          rel_data |-> RD_ReliableOrdered(send.rel_ord_index)]
    ELSE IF rel = "Reliable"
    THEN [send |-> send, rel_data |-> RD_Reliable]
    ELSE [send |-> send, rel_data |-> RD_Unreliable]

\* A header_len that leaves out the fields of a split packet.
header_len_whole(rel, is_split_packet) ==
    LET ordered == IF rel \in {"UnreliableSequenced", "ReliableOrdered"} THEN 5 + 32 ELSE 0
    IN ((32 + 3 + ordered + 1) \div 8) + 1

\* SendPart::header_len
header_len(rel, is_split_packet) ==
    LET ordered == IF rel \in {"UnreliableSequenced", "ReliableOrdered"} THEN 5 + 32 ELSE 0
        split == IF is_split_packet THEN 16 + 32 + 32 + 16 ELSE 0
    IN ((32 + 3 + ordered + 1 + split) \div 8) + 1

Min(a, b) == IF a < b THEN a ELSE b

\* The blocks in the opposite order: the last block of the data first.
RECURSIVE Chunks_backwards(_, _)
Chunks_backwards(data, chunk_size) ==
    IF Len(data) = 0
    THEN << >>
    ELSE Chunks_backwards(SubSeq(data, Min(chunk_size, Len(data)) + 1, Len(data)), chunk_size)
         \o << SubSeq(data, 1, Min(chunk_size, Len(data))) >>

\* slice::chunks(chunk_size): consecutive blocks, the last one may be shorter.
RECURSIVE Chunks(_, _)
Chunks(data, chunk_size) ==
    IF Len(data) = 0
    THEN << >>
    ELSE << SubSeq(data, 1, Min(chunk_size, Len(data))) >>
         \o Chunks(SubSeq(data, Min(chunk_size, Len(data)) + 1, Len(data)), chunk_size)

\* A split branch whose chunks all carry the message number of the first.
RECURSIVE SplitChunks_one_number(_, _, _, _, _)
SplitChunks_one_number(message_number, rel_data, split_packet_id, chunks, i) ==
    IF i > Len(chunks)
    THEN << >>
    ELSE << RaknetPacket(message_number, rel_data,
                         Some(SplitPacketInfo(split_packet_id, i - 1, Len(chunks))),
                         chunks[i]) >>
         \o SplitChunks_one_number(message_number, rel_data, split_packet_id, chunks, i + 1)

\* The split branch (send.rs:87-105): one sub-packet per chunk from index i.
RECURSIVE SplitChunks(_, _, _, _, _)
SplitChunks(message_number, rel_data, split_packet_id, chunks, i) ==
    IF i > Len(chunks)
    THEN << >>
    ELSE << RaknetPacket(message_number, rel_data,
                         Some(SplitPacketInfo(split_packet_id, i - 1, Len(chunks))),
                         chunks[i]) >>
         \o SplitChunks(wrapping_add(message_number, 1), rel_data, split_packet_id, chunks, i + 1)

\* One iteration of the loop of process_outgoing_packets (send.rs:84-116).
OutgoingBody(send, packet) ==
    LET Split(r, chunks) ==
            [send |-> [r.send EXCEPT
                         !.split_packet_index = (@ + 1) % U16Mod,
                         !.message_number = (@ + Len(chunks)) % U32Mod],
             rak_packets |-> SplitChunks(r.send.message_number, r.rel_data,
                                         r.send.split_packet_index, chunks, 1)]
        Body(r) ==
            IF header_len(packet.reliability, FALSE) + Len(packet.data) > MAX_PACKET_SIZE
            THEN Split(r, Chunks(packet.data,
                                 MAX_PACKET_SIZE - header_len(packet.reliability, TRUE)))
            ELSE [send |-> [r.send EXCEPT !.message_number = wrapping_add(@, 1)],
                  rak_packets |-> << RaknetPacket(r.send.message_number, r.rel_data, None,
                                                  packet.data) >>]
    IN Body(SendPart_rel_data(send, packet.reliability))

\* SendPart::process_outgoing_packets from packet i on.
RECURSIVE process_outgoing_packets(_, _, _)
process_outgoing_packets(send, packets, i) ==
    LET Rest(b, rest) ==
            [send |-> rest.send, rak_packets |-> b.rak_packets \o rest.rak_packets]
        Body(b) == Rest(b, process_outgoing_packets(b.send, packets, i + 1))
    IN IF i > Len(packets)
       THEN [send |-> send, rak_packets |-> << >>]
       ELSE Body(OutgoingBody(send, packets[i]))

\* What write_acks puts into a datagram (send.rs:160-169): the ack header.
write_acks(acks, remote_system_time) ==
    IF ~RangeList_is_empty(acks)
    THEN Some([remote_system_time |-> remote_system_time, acks |-> acks])
    ELSE None

\* A datagram handed to UdpSocket::send_to: the ack header when has_acks is
\* set, the has_remote_system_time bit when it was written, the sub-packet.
Datagram(address, ack_header, has_remote_system_time, packet) ==
    [address |-> address, raw |-> None, ack_header |-> ack_header,
     has_remote_system_time |-> has_remote_system_time, packet |-> packet]

\* A datagram of plain bytes (the replies of Shim::raknet_receive).
RawDatagram(address, bytes) ==
    [address |-> address, raw |-> Some(bytes), ack_header |-> None,
     has_remote_system_time |-> None, packet |-> None]

\* send_acks with a list that stays as it is after it was written.
send_acks_keeps(send, acks, remote_system_time, fail) ==
    IF RangeList_is_empty(acks)
    THEN [acks |-> acks, datagrams |-> << >>, res |-> "Ok"]
    ELSE [acks |-> acks,
          datagrams |-> << Datagram(send.address, write_acks(acks, remote_system_time),
                                    None, None) >>,
          res |-> IF fail = 1 THEN "Err" ELSE "Ok"]

\* SendPart::send_acks (send.rs:148-158)
send_acks(send, acks, remote_system_time, fail) ==
    IF RangeList_is_empty(acks)
    THEN [acks |-> acks, datagrams |-> << >>, res |-> "Ok"]
    ELSE [acks |-> RangeList_clear(acks),
          datagrams |-> << Datagram(send.address, write_acks(acks, remote_system_time),
                                    None, None) >>,
          res |-> IF fail = 1 THEN "Err" ELSE "Ok"]

\* The loop with an ack list that is not cleared by write_acks: every datagram
\* of the call carries it.
RECURSIVE send_packet_loop_keeps(_, _, _, _, _, _)
send_packet_loop_keeps(send, rak_packets, acks, remote_system_time, fail, i) ==
    LET Rest(d, rest) ==
            [acks |-> rest.acks, datagrams |-> << d >> \o rest.datagrams, res |-> rest.res]
        Body(d) ==
            IF fail = i
            THEN [acks |-> RangeList_clear(acks), datagrams |-> << d >>, res |-> "Err"]
            ELSE Rest(d, send_packet_loop_keeps(send, rak_packets, acks,
                                                remote_system_time, fail, i + 1))
    IN IF i > Len(rak_packets)
       THEN [acks |-> RangeList_clear(acks), datagrams |-> << >>, res |-> "Ok"]
       ELSE Body(Datagram(send.address, write_acks(acks, remote_system_time),
                          Some(FALSE), Some(rak_packets[i])))

\* The loop of send_packets over send_packet (send.rs:43-45, 137-146) from
\* sub-packet i on; the `fail`-th call of send_to returns an error (0: none).
RECURSIVE send_packet_loop(_, _, _, _, _, _)
send_packet_loop(send, rak_packets, acks, remote_system_time, fail, i) ==
    LET Rest(d, rest) ==
            [acks |-> rest.acks, datagrams |-> << d >> \o rest.datagrams, res |-> rest.res]
        Body(d) ==
            IF fail = i
            THEN [acks |-> RangeList_clear(acks), datagrams |-> << d >>, res |-> "Err"]
            ELSE Rest(d, send_packet_loop(send, rak_packets, RangeList_clear(acks),
                                          remote_system_time, fail, i + 1))
    IN IF i > Len(rak_packets)
       THEN [acks |-> acks, datagrams |-> << >>, res |-> "Ok"]
       ELSE Body(Datagram(send.address, write_acks(acks, remote_system_time),
                          Some(FALSE), Some(rak_packets[i])))

\* SendPart::send_packets (send.rs:36-47)
send_packets(send, packets, acks, remote_system_time, fail) ==
    LET Result(po, out) ==
            [send |-> po.send, acks |-> out.acks, datagrams |-> out.datagrams,
             res |-> out.res]
        Out(po) ==
            IF po.rak_packets = << >>
            THEN Result(po, send_acks(po.send, acks, remote_system_time, fail))
            ELSE Result(po, send_packet_loop(po.send, po.rak_packets, acks,
                                             remote_system_time, fail, 1))
    IN Out(process_outgoing_packets(send, packets, 1))

\* ------------------------------------------------------------------ connection.rs

\* Connection::new
Connection_new(address) ==
    [closed |-> FALSE, remote_system_time |-> 0, acks |-> RangeList_new,
     recv |-> ReceivePart_default, send |-> SendPart_new(address)]

\* Connection::send without the test of `closed`.
Connection_send_open(conn, packets, fail) ==
    LET Sent(sp) ==
            [conn |-> [conn EXCEPT !.send = sp.send, !.acks = sp.acks],
             datagrams |-> sp.datagrams, res |-> sp.res]
    IN Sent(send_packets(conn.send, packets, conn.acks, conn.remote_system_time, fail))

\* Connection::send: the connection after the call, the datagrams handed to
\* the socket and the result.
Connection_send(conn, packets, fail) ==
    LET Sent(sp) ==
            [conn |-> [conn EXCEPT !.send = sp.send, !.acks = sp.acks],
             datagrams |-> sp.datagrams, res |-> sp.res]
    IN IF conn.closed
       THEN [conn |-> conn, datagrams |-> << >>, res |-> "ConnectionAborted"]
       ELSE Sent(send_packets(conn.send, packets, conn.acks, conn.remote_system_time,
                              fail))

\* A destructor that sends its notification past the test of `closed`.
Connection_drop_forced(conn) ==
    Connection_send([conn EXCEPT !.closed = FALSE],
                    << [reliability |-> "Unreliable",
                        data |-> << DisconnectNotification >>] >>, 0).datagrams

\* A destructor that sends nothing.
Connection_drop_silent(conn) == << >>

\* impl Drop for Connection: the datagrams its send hands to the socket; the
\* result of the send is discarded and the connection is gone.
Connection_drop(conn) ==
    Connection_send(conn, << [reliability |-> "Unreliable",
                              data |-> << DisconnectNotification >>] >>, 0).datagrams

\* A received RakNet datagram as its reader sees it: `header` is "ok" when
\* handle_header reads the header bits ("eof" when the datagram ends inside
\* them), `remote_system_time` the optional clock, `rak_packets` the
\* sub-packets parse_packets reads, `parse` is "panic" when a sub-packet after
\* them has an unknown reliability id or a non-zero ordering channel.
LegDatagram(header, remote_system_time, rak_packets, parse) ==
    [header |-> header, remote_system_time |-> remote_system_time,
     rak_packets |-> rak_packets, parse |-> parse]

\* Connection::handle_datagram: the connection and the packets returned;
\* res is "Ok", "Err" (the header), or "panic".
Connection_handle_datagram(conn, dgram) ==
    LET timed == IF dgram.remote_system_time # None
                 THEN [conn EXCEPT !.remote_system_time = dgram.remote_system_time[1]]
                 ELSE conn
        Processed(p) ==
            [conn |-> [timed EXCEPT !.recv = p.recv, !.acks = p.acks, !.closed = p.closed],
             packets |-> p.packets, paths |-> p.paths,
             res |-> IF p.panicked THEN "panic" ELSE "Ok"]
    IN IF dgram.header # "ok"
       THEN [conn |-> conn, packets |-> << >>, paths |-> << >>, res |-> "Err"]
       ELSE IF dgram.parse = "panic"
       THEN [conn |-> timed, packets |-> << >>, paths |-> << >>, res |-> "panic"]
       ELSE Processed(process_incoming_packets(timed.recv, dgram.rak_packets,
                                               timed.acks, timed.closed))


\* ------------------------------------------------------------------ tcpudp/mod.rs

\* A write of a u32 with the highest byte first.
write_u32_be(n) == << (n \div 16777216) % 256, (n \div 65536) % 256, (n \div 256) % 256, n % 256 >>

\* LEWrite of a u32: its four bytes, lowest first.
write_u32(n) == << n % 256, (n \div 256) % 256, (n \div 65536) % 256, (n \div 16777216) % 256 >>

\* u32::from_le_bytes
from_le_bytes(b) == b[1] + 256 * b[2] + 65536 * b[3] + 16777216 * b[4]

\* vec![0; n]
Zeros(n) == [i \in 1 .. n |-> 0]

\* Connection::new of the TcpUdp side
TcpUdp_new ==
    [seq_num_recv |-> 0, seq_num_send |-> 0,
     packet |-> [reading_length |-> TRUE, offset |-> 0, length |-> Zeros(4),
                 buffer |-> << >>]]

\* Connection::send of the TcpUdp side from packet i on: what goes out (UDP
\* datagrams with their tag, TCP frames, and the bytes of each) and the
\* result; the `fail`-th packet meets an I/O error (0: none).
RECURSIVE TcpUdp_send_from(_, _, _, _)
TcpUdp_send_from(tcpudp, packets, fail, i) ==
    LET seq == packets[i].reliability = "UnreliableSequenced"
        after == IF seq
                 THEN [tcpudp EXCEPT !.seq_num_send = wrapping_add(@, 1)]
                 ELSE tcpudp
        msg == IF packets[i].reliability = "Unreliable"
               THEN [via |-> "udp", tag |-> Some(0), seq_num |-> None,
                     data |-> packets[i].data,
                     bytes |-> << 0 >> \o packets[i].data]
               ELSE IF seq
               THEN [via |-> "udp", tag |-> Some(1),
                     seq_num |-> Some(tcpudp.seq_num_send), data |-> packets[i].data,
                     bytes |-> << 1 >> \o write_u32(tcpudp.seq_num_send) \o packets[i].data]
               ELSE [via |-> "tcp", tag |-> None, seq_num |-> None,
                     data |-> packets[i].data,
                     bytes |-> write_u32(Len(packets[i].data)) \o packets[i].data]
        Rest(rest) ==
            [tcpudp |-> rest.tcpudp, out |-> << msg >> \o rest.out, res |-> rest.res]
    IN IF i > Len(packets)
       THEN [tcpudp |-> tcpudp, out |-> << >>, res |-> "Ok"]
       ELSE IF fail = i
       THEN [tcpudp |-> after, out |-> << >>, res |-> "Err"]
       ELSE Rest(TcpUdp_send_from(after, packets, fail, i + 1))

TcpUdp_send(tcpudp, packets, fail) == TcpUdp_send_from(tcpudp, packets, fail, 1)

\* TcpStream::read into a slice with room for `space` bytes: `segments` are
\* the pieces in which the stream's bytes arrive, a read returns bytes of the
\* first piece only.
Read(space, segments) ==
    LET n == Min(space, Len(segments[1]))
    IN [bytes |-> SubSeq(segments[1], 1, n),
        segments |-> IF n = Len(segments[1])
                     THEN Tail(segments)
                     ELSE << SubSeq(segments[1], n + 1, Len(segments[1])) >> \o Tail(segments)]

\* A read that writes at the start of the slice whatever the offset.
Filled_from_start(slice, offset, bytes) ==
    [i \in 1 .. Len(slice) |-> IF i <= Len(bytes) THEN bytes[i] ELSE slice[i]]

\* The bytes `bytes` written into `slice` from offset on.
Filled(slice, offset, bytes) ==
    [i \in 1 .. Len(slice) |->
       IF i > offset /\ i <= offset + Len(bytes) THEN bytes[i - offset] ELSE slice[i]]

\* Connection::receive_tcp: the BufferOffset and the packets when a read
\* finds no more bytes; `end` is what that read returns: "WouldBlock", "Eof"
\* (n = 0) or another error.
RECURSIVE TcpUdp_receive_tcp(_, _, _, _)
TcpUdp_receive_tcp(packet, segments, end, packets) ==
    LET Stop == [packet |-> packet, packets |-> packets,
                 res |-> IF end = "Eof" THEN "WouldBlock" ELSE end]
        Length(r) ==
            TcpUdp_receive_tcp([packet EXCEPT !.length = Filled(@, packet.offset, r.bytes),
                                              !.offset = @ + Len(r.bytes)],
                               r.segments, end, packets)
        Buffer(r) ==
            TcpUdp_receive_tcp([packet EXCEPT !.buffer = Filled(@, packet.offset, r.bytes),
                                              !.offset = @ + Len(r.bytes)],
                               r.segments, end, packets)
    IN IF packet.reading_length
       THEN IF packet.offset < Len(packet.length)
            THEN IF segments = << >>
                 THEN Stop
                 ELSE Length(Read(Len(packet.length) - packet.offset, segments))
            ELSE TcpUdp_receive_tcp([packet EXCEPT !.reading_length = FALSE,
                                                   !.offset = 0,
                                                   !.buffer = Zeros(from_le_bytes(packet.length))],
                                    segments, end, packets)
       ELSE IF packet.offset < Len(packet.buffer)
            THEN IF segments = << >>
                 THEN Stop
                 ELSE Buffer(Read(Len(packet.buffer) - packet.offset, segments))
            ELSE TcpUdp_receive_tcp([packet EXCEPT !.reading_length = TRUE,
                                                   !.offset = 0,
                                                   !.buffer = << >>],
                                    segments, end,
                                    Append(packets, [reliability |-> "ReliableOrdered",
                                                     data |-> packet.buffer]))

\* UdpSocket::recv into BUF: the datagram over the start of the buffer, what
\* was there before behind it.  BUF is held up to the last byte ever
\* written; the bytes behind are the zeros of its initializer.
BUF_recv(BUF, datagram) ==
    LET len == Min(Len(datagram), MAX_PACKET_SIZE)
    IN SubSeq(datagram, 1, len) \o SubSeq(BUF, len + 1, Len(BUF))

\* BUF[i]
BUF_at(BUF, i) == IF i + 1 <= Len(BUF) THEN BUF[i + 1] ELSE 0

\* The part of the buffer that Shim::raknet_receive reads without regard to
\* the length recv_from returned: BUF[0] (main.rs:113).
BUF_head(BUF) == SubSeq(BUF, 1, Min(Len(BUF), 1))

\* A test for a sequence number with a window of half the number space.
SeqAccepts_half(seq_num, seq_num_recv) == wrapping_sub(seq_num, seq_num_recv) < U32Mod \div 2

\* The test of receive_udp for a sequence number (tcpudp/mod.rs:121).
SeqAccepts(seq_num, seq_num_recv) == wrapping_sub(seq_num, seq_num_recv) < HalfWindow

\* Connection::receive_udp from datagram i on: the connection, BUF and the
\* packets when recv finds no more datagrams (`end` is the error it returns
\* then) or a panic unwinds.
RECURSIVE TcpUdp_receive_udp(_, _, _, _, _, _)
TcpUdp_receive_udp(tcpudp, BUF, datagrams, end, packets, i) ==
    LET Result(buf, res, pkts, conn) ==
            [tcpudp |-> conn, BUF |-> buf, packets |-> pkts, res |-> res]
        Body(buf, len) ==
            LET seq_num == from_le_bytes([k \in 1 .. 4 |-> BUF_at(buf, k)]) % U32Mod
                accepted == [tcpudp EXCEPT !.seq_num_recv = wrapping_add(seq_num, 1)]
            IN IF BUF_at(buf, 0) = 0
               THEN IF len < 1
                    THEN Result(buf, "panic", packets, tcpudp)
                    ELSE TcpUdp_receive_udp(tcpudp, buf, datagrams, end,
                                            Append(packets, [reliability |-> "Unreliable",
                                                             data |-> SubSeq(buf, 2, len)]),
                                            i + 1)
               ELSE IF BUF_at(buf, 0) = 1
               THEN IF SeqAccepts(seq_num, tcpudp.seq_num_recv)
                    THEN IF len < 5
                         THEN Result(buf, "panic", packets, accepted)
                         ELSE TcpUdp_receive_udp(accepted, buf, datagrams, end,
                                                 Append(packets,
                                                        [reliability |-> "UnreliableSequenced",
                                                         data |-> SubSeq(buf, 6, len)]),
                                                 i + 1)
                    ELSE TcpUdp_receive_udp(tcpudp, buf, datagrams, end, packets, i + 1)
               ELSE Result(buf, "panic", packets, tcpudp)
    IN IF i > Len(datagrams)
       THEN Result(BUF, end, packets, tcpudp)
       ELSE Body(BUF_recv(BUF, datagrams[i]), Min(Len(datagrams[i]), MAX_PACKET_SIZE))

\* Connection::receive of the TcpUdp side: the connection and BUF after it
\* and what it returns, the packets with res "Ok", or "Err", or "panic".
TcpUdp_receive(tcpudp, BUF, segments, tcp_end, datagrams, udp_end) ==
    LET Udp(u) ==
            [tcpudp |-> u.tcpudp, BUF |-> u.BUF,
             packets |-> IF u.res = "WouldBlock" THEN u.packets ELSE << >>,
             res |-> IF u.res = "WouldBlock" THEN "Ok"
                     ELSE IF u.res = "panic" THEN "panic" ELSE "Err"]
        Tcp(t) ==
            IF t.res # "WouldBlock"
            THEN [tcpudp |-> [tcpudp EXCEPT !.packet = t.packet], BUF |-> BUF,
                  packets |-> << >>, res |-> "Err"]
            ELSE Udp(TcpUdp_receive_udp([tcpudp EXCEPT !.packet = t.packet], BUF, datagrams,
                                        udp_end, t.packets, 1))
    IN Tcp(TcpUdp_receive_tcp(tcpudp.packet, segments, tcp_end, << >>))

\* The TcpUdp side and the buffer after a receive that returned `packets`
\* (from packet i on): an Unreliable or UnreliableSequenced packet came in a
\* datagram of its own (tcpudp/mod.rs:116-125), a sequenced one with the
\* sequence number receive_udp expects next; the others came as frames of
\* the stream.
RECURSIVE TcpUdp_received(_, _, _, _)
TcpUdp_received(tcpudp, buf, packets, i) ==
    IF i > Len(packets) THEN [tcpudp |-> tcpudp, BUF |-> buf]
    ELSE IF packets[i].reliability = "Unreliable"
    THEN TcpUdp_received(tcpudp, BUF_recv(buf, << 0 >> \o packets[i].data), packets, i + 1)
    ELSE IF packets[i].reliability = "UnreliableSequenced"
    THEN TcpUdp_received([tcpudp EXCEPT !.seq_num_recv = wrapping_add(@, 1)],
                         BUF_recv(buf, << 1 >> \o write_u32(tcpudp.seq_num_recv)
                                       \o packets[i].data),
                         packets, i + 1)
    ELSE TcpUdp_received(tcpudp, buf, packets, i + 1)

\* ------------------------------------------------------------------ packet.rs, on the wire

\* The bytes a BitWriter has written when it is dropped.
BytesOf(bits) ==
    LET Packed(flushed) ==
            [k \in 1 .. (Len(flushed) \div 8) |->
                read_bits(SubSeq(flushed, 8 * k - 7, 8 * k), 8)]
    IN Packed(Flushed(bits))

\* LEWrite of a u16: its bytes, lowest first.
write_u16(n) == << n % 256, (n \div 256) % 256 >>

\* Serialize for &ReliabilityData (packet.rs:51-69)
ReliabilityData_serialize(rel_data) ==
    LET val == CASE rel_data[1] = "Unreliable" -> 0
                 [] rel_data[1] = "UnreliableSequenced" -> 1
                 [] rel_data[1] = "Reliable" -> 2
                 [] rel_data[1] = "ReliableOrdered" -> 3
    IN write_bits(val, 3)
       \o (IF Len(rel_data) = 2
           THEN write_bits(0, 5) \o WriteLowBytes(write_u32(rel_data[2]), 0, 4)
           ELSE << >>)

\* Serialize for &SplitPacketInfo (packet.rs:89-96)
SplitPacketInfo_serialize(info) ==
    WriteLowBytes(write_u16(info.id), 0, 2)
    \o Compressed_serialize(write_u32(info.index))
    \o Compressed_serialize(write_u32(info.count))

\* The part of the serialization before the data (packet.rs:134-141): the
\* fields, the length in bits as a Compressed<u16>, and align().
RaknetPacket_serialize_head(bits, rak_packet) ==
    Flushed(bits
            \o WriteLowBytes(write_u32(rak_packet.message_number), 0, 4)
            \o ReliabilityData_serialize(rak_packet.rel_data)
            \o (IF rak_packet.split_packet_info # None
                THEN << 1 >> \o SplitPacketInfo_serialize(rak_packet.split_packet_info[1])
                ELSE << 0 >>)
            \o Compressed_serialize(write_u16((Len(rak_packet.data) * 8) % 65536)))

\* Serialize for &RaknetPacket (packet.rs:132-144) behind the bits written
\* so far: the length in bits as a u16, then the data from the next byte on.
RaknetPacket_serialize(bits, rak_packet) ==
    RaknetPacket_serialize_head(bits, rak_packet)
    \o WriteLowBytes(rak_packet.data, 0, Len(rak_packet.data))

\* The sub-packets from packet i on written behind `bits`.
RECURSIVE RaknetPackets_serialize(_, _, _)
RaknetPackets_serialize(bits, rak_packets, i) ==
    IF i > Len(rak_packets) THEN bits
    ELSE RaknetPackets_serialize(RaknetPacket_serialize(bits, rak_packets[i]), rak_packets, i + 1)

\* LERead of a u16 or u32 from the bit stream: the bytes, lowest first.
read_le(bits, size) == ReadBytesAt(bits, 0, size, [j \in 1 .. size |-> 0])

\* The number a sequence of bytes, lowest first, stands for.
RECURSIVE from_bytes(_)
from_bytes(b) == IF b = << >> THEN 0 ELSE b[1] + 256 * from_bytes(Tail(b))

\* Deserialize for ReliabilityData (packet.rs:28-49): res is "Ok", "Err" (the
\* stream ended) or "panic".
ReliabilityData_deserialize(bits) ==
    LET Ordered(kind, rest) ==
            IF Len(rest) < 5 THEN [res |-> "Err", value |-> << >>, rest |-> rest]
            ELSE IF read_bits(rest, 5) # 0 THEN [res |-> "panic", value |-> << >>, rest |-> rest]
            ELSE LET Ord(r) == [res |-> r.res, value |-> << kind, from_bytes(r.value) >>,
                                rest |-> r.rest]
                 IN Ord(read_le(SubSeq(rest, 6, Len(rest)), 4))
        Of(id, rest) ==
            CASE id = 0 -> [res |-> "Ok", value |-> RD_Unreliable, rest |-> rest]
              [] id = 1 -> Ordered("UnreliableSequenced", rest)
              [] id = 2 -> [res |-> "Ok", value |-> RD_Reliable, rest |-> rest]
              [] id = 3 -> Ordered("ReliableOrdered", rest)
              [] OTHER -> [res |-> "panic", value |-> << >>, rest |-> rest]
    IN IF Len(bits) < 3 THEN [res |-> "Err", value |-> << >>, rest |-> bits]
       ELSE Of(read_bits(bits, 3), SubSeq(bits, 4, Len(bits)))

\* Deserialize for SplitPacketInfo (packet.rs:77-88)
SplitPacketInfo_deserialize(bits) ==
    LET Count(id, index, c) ==
            [res |-> c.res,
             value |-> SplitPacketInfo(from_bytes(id.value), from_bytes(index.value),
                                       from_bytes(c.value)),
             rest |-> c.rest]
        Index(id, index) ==
            IF index.res # "Ok" THEN [res |-> "Err", value |-> << >>, rest |-> index.rest]
            ELSE Count(id, index, Compressed_deserialize(index.rest, 4))
        Id(id) ==
            IF id.res # "Ok" THEN [res |-> "Err", value |-> << >>, rest |-> id.rest]
            ELSE Index(id, Compressed_deserialize(id.rest, 4))
    IN Id(read_le(bits, 2))

\* reader.align() on a stream read from whole bytes: the rest of the byte
\* begun is skipped.
align(bits) == SubSeq(bits, (Len(bits) % 8) + 1, Len(bits))

\* Deserialize for RaknetPacket (packet.rs:111-130): `length` is in bits and
\* length / 8 bytes are read from the next byte boundary on.
RaknetPacket_deserialize(bits) ==
    LET Fail(res, rest) == [res |-> res, packet |-> << >>, rest |-> rest]
        Data(message_number, rel_data, split, n, rest) ==
            IF Len(rest) < 8 * n THEN Fail("Err", rest)
            ELSE [res |-> "Ok",
                  packet |-> RaknetPacket(message_number, rel_data, split,
                                          [k \in 1 .. n |->
                                             read_bits(SubSeq(rest, 8 * k - 7, 8 * k), 8)]),
                  rest |-> SubSeq(rest, 8 * n + 1, Len(rest))]
        Length(message_number, rel_data, split, length) ==
            IF length.res # "Ok" THEN Fail("Err", length.rest)
            ELSE Data(message_number, rel_data, split, from_bytes(length.value) \div 8,
                      align(length.rest))
        Split(message_number, rel_data, split) ==
            IF split.res # "Ok" THEN Fail("Err", split.rest)
            ELSE Length(message_number, rel_data, Some(split.value),
                        Compressed_deserialize(split.rest, 2))
        HasSplit(message_number, rel_data, rest) ==
            IF Len(rest) < 1 THEN Fail("Err", rest)
            ELSE IF rest[1] = 1
            THEN Split(message_number, rel_data, SplitPacketInfo_deserialize(Tail(rest)))
            ELSE Length(message_number, rel_data, None, Compressed_deserialize(Tail(rest), 2))
        RelData(message_number, rel_data) ==
            IF rel_data.res # "Ok" THEN Fail(rel_data.res, rel_data.rest)
            ELSE HasSplit(message_number, rel_data.value, rel_data.rest)
        Number(message_number) ==
            IF message_number.res # "Ok" THEN Fail("Err", message_number.rest)
            ELSE RelData(from_bytes(message_number.value),
                         ReliabilityData_deserialize(message_number.rest))
    IN Number(read_le(bits, 4))

\* Serialize for &RangeList (rangelist.rs:115-127) from range i on.
RECURSIVE RangeList_serialize_from(_, _)
RangeList_serialize_from(ranges, i) ==
    IF i > Len(ranges) THEN << >>
    ELSE (IF ranges[i].min = ranges[i].max THEN << 1 >> ELSE << 0 >>)
         \o WriteLowBytes(write_u32(ranges[i].min), 0, 4)
         \o (IF ranges[i].min # ranges[i].max
             THEN WriteLowBytes(write_u32(ranges[i].max), 0, 4)
             ELSE << >>)
         \o RangeList_serialize_from(ranges, i + 1)

RangeList_serialize(ranges) ==
    Compressed_serialize(write_u16(Len(ranges) % 65536)) \o RangeList_serialize_from(ranges, 1)

\* The bits written before the sub-packet (send.rs:140-142, 155).
SentHeader(datagram) ==
    (IF datagram.ack_header # None
     THEN << 1 >>
          \o WriteLowBytes(write_u32(datagram.ack_header[1].remote_system_time), 0, 4)
          \o RangeList_serialize(datagram.ack_header[1].acks)
     ELSE << 0 >>)
    \o (IF datagram.has_remote_system_time = None THEN << >>
        ELSE IF datagram.has_remote_system_time[1] THEN << 1 >> ELSE << 0 >>)

\* The bits send_packet and send_acks write for a datagram (send.rs:137-158):
\* what write_acks writes (has_acks and, if set, the clock and the list), the
\* has_remote_system_time bit if one is written, and the sub-packet.
SentBits(datagram) ==
    IF datagram.packet = None THEN SentHeader(datagram)
    ELSE RaknetPacket_serialize(SentHeader(datagram), datagram.packet[1])

\* The bytes handed to send_to: the writer is dropped, which fills the last
\* byte with zero bits.
SentBytes(datagram) ==
    IF datagram.raw # None THEN datagram.raw[1] ELSE BytesOf(SentBits(datagram))

\* ------------------------------------------------------------------ datagrams of recv.rs tests

\* A payload byte that names an ordinal, as the tests' `vec![index as u8]`,
\* kept apart from the message ids.
Tag(ord) == 32 + ord

\* The ordinal a tagged payload names.
Untag(data) == data[1] - 32

\* tests::unrel_seq of recv.rs
unrel_seq(message_number, index) ==
    RaknetPacket(message_number, RD_UnreliableSequenced(index), None, << Tag(index) >>)

\* tests::rel_ord of recv.rs
rel_ord(message_number, index) ==
    RaknetPacket(message_number, RD_ReliableOrdered(index), None, << Tag(index) >>)

\* A well-formed datagram with no clock and these sub-packets.
Plain(rak_packets) == LegDatagram("ok", None, rak_packets, "ok")

\* ReliableOrdered traffic: every ordinal alone, as a disconnect
\* notification, twice in one datagram, and behind its successor.
RelOrdDatagrams ==
    { Plain(<< rel_ord(0, o) >>) : o \in U32 }
    \cup { Plain(<< RaknetPacket(0, RD_ReliableOrdered(o), None,
                                 << DisconnectNotification >>) >>) : o \in U32 }
    \cup { Plain(<< rel_ord(0, o), rel_ord(0, o) >>) : o \in U32 }
    \cup { Plain(<< rel_ord(0, wrapping_add(o, 1)), rel_ord(0, o) >>) : o \in U32 }

\* UnreliableSequenced traffic: every ordinal alone, and in one datagram with
\* a second copy of itself, with its successor and with its predecessor.
UnrelSeqDatagrams ==
    { Plain(<< unrel_seq(0, o) >>) : o \in U32 }
    \cup { Plain(<< unrel_seq(0, a), unrel_seq(1, wrapping_add(a, b)) >>) :
             a \in U32, b \in { 0, 1, U32Max } }
    \cup { Plain(<< unrel_seq(0, U32Max - 1), unrel_seq(1, 0) >>) }

\* The bytes of a datagram that handle_header and parse_packets read as
\* `dgram` (connection.rs:44-55, packet.rs:111-130): no acks, the clock if
\* there is one, the sub-packets; an empty datagram is the one that ends
\* inside the header, and a sub-packet with reliability id 4 is the one the
\* parser panics at.
Wire_serialize(dgram) ==
    LET header == << 0 >>
                  \o (IF dgram.remote_system_time # None
                      THEN << 1 >> \o WriteLowBytes(write_u32(dgram.remote_system_time[1]), 0, 4)
                      ELSE << 0 >>)
        unknown == WriteLowBytes(write_u32(0), 0, 4) \o write_bits(4, 3)
    IN IF dgram.header # "ok" THEN << >>
       ELSE BytesOf(RaknetPackets_serialize(header, dgram.rak_packets, 1)
                    \o (IF dgram.parse = "panic" THEN unknown ELSE << >>))

\* The wire forms of the datagrams of the recv.rs tests, written once.
WireTable == [dgram \in RelOrdDatagrams \cup UnrelSeqDatagrams |-> Wire_serialize(dgram)]

\* The bytes of a datagram as recv_from puts them into BUF.
Wire(dgram) ==
    IF dgram \in DOMAIN WireTable THEN WireTable[dgram] ELSE Wire_serialize(dgram)

\* ------------------------------------------------------------------ bridge.rs

\* Bridge::new
Bridge_new(raknet, tcpudp) == [raknet |-> raknet, tcpudp |-> tcpudp]

\* Bridge::raknet_receive: the bridge after it, the packets handed to the
\* TcpUdp side and what went out there; res is "Ok", "Err" or "panic".
Bridge_raknet_receive(bridge, dgram, new_fail) ==
    LET Sent(h, t) ==
            [bridge |-> [bridge EXCEPT !.raknet = h.conn, !.tcpudp = t.tcpudp],
             packets |-> h.packets, paths |-> h.paths, out |-> t.out, res |-> t.res]
        Handled(h) ==
            IF h.res # "Ok"
            THEN [bridge |-> [bridge EXCEPT !.raknet = h.conn], packets |-> h.packets,
                  paths |-> h.paths, out |-> << >>, res |-> h.res]
            ELSE Sent(h, TcpUdp_send(bridge.tcpudp, h.packets, new_fail))
    IN Handled(Connection_handle_datagram(bridge.raknet, dgram))

\* ------------------------------------------------------------------ string.rs

\* "localhost" and "127.0.0.1" as their bytes.
Localhost == << 108, 111, 99, 97, 108, 104, 111, 115, 116 >>

Loopback == << 49, 50, 55, 46, 48, 46, 48, 46, 49 >>

\* iter().position(|&x| x == 0) from index i on: the 0-based index of the
\* first zero byte, or None.
RECURSIVE position_zero(_, _)
position_zero(a, i) ==
    IF i >= Len(a) THEN None
    ELSE IF a[i + 1] = 0 THEN Some(i) ELSE position_zero(a, i + 1)

\* std::str::from_utf8 succeeds; the model's strings are ASCII, and a byte
\* from 128 on that no ASCII byte precedes or follows is not UTF-8.
from_utf8_ok(bytes) == \A k \in 1 .. Len(bytes) : bytes[k] < 128

\* ReadStr::read_fix on a slice (string.rs:25-37): split_at(33) panics on a
\* slice shorter than 33 bytes; res is "Ok" with the string, "Err" or "panic".
read_fix(slice) ==
    LET Found(a, terminator) ==
            IF terminator = None THEN [res |-> "Err", str |-> << >>]
            ELSE IF from_utf8_ok(SubSeq(a, 1, terminator[1]))
            THEN [res |-> "Ok", str |-> SubSeq(a, 1, terminator[1])]
            ELSE [res |-> "Err", str |-> << >>]
        Split(a) == Found(a, position_zero(a, 0))
    IN IF Len(slice) < 33 THEN [res |-> "panic", str |-> << >>]
       ELSE Split(SubSeq(slice, 1, 33))

\* A write_fix that leaves the bytes behind the string as they are.
write_fix_unpadded(str) ==
    IF Len(str) > 32 THEN None ELSE Some(str)

\* WriteStr::write_fix (string.rs:39-50): the bytes it writes, None when the
\* string is longer than 32 bytes.
write_fix(str) ==
    IF Len(str) > 32 THEN None ELSE Some(str \o Zeros(33 - Len(str)))

\* Write for &mut [u8] at data[at..]: the bytes that fit are copied.
WriteAt(data, at, bytes) ==
    [k \in 1 .. Len(data) |->
        IF k > at /\ k <= at + Len(bytes) THEN bytes[k - at] ELSE data[k]]

\* ------------------------------------------------------------------ main.rs, Shim

\* A SocketAddr: the host as the bytes of its text, and the port.
SocketAddr(host, port) == << host, port >>

\* Shim::new
Shim_new(listen_addr, connect_addr) ==
    [connect_addr |-> connect_addr, local_addr |-> listen_addr, bridges |-> << >>]

\* ------------------------------------------------------------------ bridge.rs, scan_packets

\* The test of scan_packets (bridge.rs:94) for a packet it looks into.
ScanLooksInto(data) == Len(data) > 8 /\ data[1] = 83 /\ data[2] = 5

\* A host that is an address in text form: digits and dots.
IsLiteral(host) ==
    Len(host) >= 1 /\ \A k \in 1 .. Len(host) : host[k] = 46 \/ (host[k] >= 48 /\ host[k] <= 57)

\* (host, port).to_socket_addrs(): an address in text form is itself; any
\* other name is one the resolver does not know, and the unwrap on its
\* result panics.
to_socket_addrs(host, port) ==
    IF IsLiteral(host) THEN Some(SocketAddr(host, port)) ELSE None

\* The body of both branches of scan_packets (bridge.rs:97-118, 121-143)
\* for a packet with the host at data[at_host..] and the port behind it:
\* `binds` are the ports the system gives to the sockets that Shim::new
\* binds to port 0 from here on (0 when the bind fails).  res is "Ok",
\* "Err", "panic", or "bind" when a bind is needed and `binds` has none.
scan_address(data, at_host, at_port, addrs, binds) ==
    LET Out(res, d, cmd, left) == [res |-> res, data |-> d, cmds |-> cmd, binds |-> left]
        Written(addr, cmd, left) ==
            Out("Ok",
                WriteAt(WriteAt(data, at_host, write_fix(Loopback)[1]), at_port,
                        write_u16(addr[2])),
                cmd, left)
        Relay(connect_addr) ==
            IF connect_addr \in DOMAIN addrs
            THEN Written(addrs[connect_addr], << >>, binds)
            ELSE IF binds = << >> THEN Out("bind", data, << >>, binds)
            ELSE IF binds[1] = 0 THEN Out("Err", data, << >>, Tail(binds))
            ELSE Written(SocketAddr(Loopback, binds[1]),
                         << [connect_addr |-> connect_addr,
                             shim |-> Shim_new(SocketAddr(Loopback, binds[1]), connect_addr)] >>,
                         Tail(binds))
        Resolved(a) == IF a = None THEN Out("panic", data, << >>, binds) ELSE Relay(a[1])
        Port(host) ==
            IF Len(data) < at_port + 2 THEN Out("Err", data, << >>, binds)
            ELSE Resolved(to_socket_addrs(IF host = Localhost THEN Loopback ELSE host,
                                          data[at_port + 1] + 256 * data[at_port + 2]))
        Host(h) == IF h.res # "Ok" THEN Out(h.res, data, << >>, binds) ELSE Port(h.str)
    IN Host(read_fix(SubSeq(data, at_host + 1, Len(data))))

\* Bridge::scan_packets from packet i on (bridge.rs:91-148): the packets as
\* it leaves them, the commands and the result.
RECURSIVE scan_packets(_, _, _, _, _)
scan_packets(packets, addrs, binds, cmds, i) ==
    LET Next(r) ==
            IF r.res # "Ok"
            THEN [res |-> r.res, packets |-> packets, cmds |-> << >>, binds |-> r.binds]
            ELSE scan_packets([packets EXCEPT ![i].data = r.data], addrs, r.binds,
                              cmds \o r.cmds, i + 1)
        Skip == scan_packets(packets, addrs, binds, cmds, i + 1)
        Scan(data) ==
            IF ScanLooksInto(data)
            THEN IF data[4] = 0
                 THEN IF data[9] = 1 /\ Len(data) > 413
                      THEN Next(scan_address(data, 345, 411, addrs, binds))
                      ELSE Skip
                 ELSE IF data[4] = 14
                 THEN Next(scan_address(data, 8, 8 + 33, addrs, binds))
                 ELSE Skip
            ELSE Skip
    IN IF i > Len(packets)
       THEN [res |-> "Ok", packets |-> packets, cmds |-> cmds, binds |-> binds]
       ELSE Scan(packets[i].data)

\* Bridge::tcpudp_receive that returns early when nothing was received.
Bridge_tcpudp_receive_idle(bridge, received, addrs, binds, fail) ==
    LET Out(b, datagrams, res, cmds, left) ==
            [bridge |-> b, datagrams |-> datagrams, res |-> res, cmds |-> cmds,
             binds |-> left]
        Sent(sc, s) ==
            Out([bridge EXCEPT !.raknet = s.conn], s.datagrams, s.res,
                IF s.res = "Ok" THEN sc.cmds ELSE << >>, sc.binds)
        Scanned(sc) ==
            IF sc.res # "Ok" THEN Out(bridge, << >>, sc.res, << >>, sc.binds)
            ELSE Sent(sc, Connection_send(bridge.raknet, sc.packets, fail))
    IN IF received.res # "Ok"
       THEN Out(bridge, << >>, received.res, << >>, binds)
       ELSE IF received.packets = << >>
       THEN Out(bridge, << >>, "Ok", << >>, binds)
       ELSE Scanned(scan_packets(received.packets, addrs, binds, << >>, 1))

\* Bridge::tcpudp_receive (bridge.rs:66-74) for what the TcpUdp side's
\* receive returns (received.res is "Ok" with the packets, the kind of its
\* error, or "panic"): the bridge after it, the datagrams handed to the
\* RakNet socket, the commands returned and the result.  The commands of
\* the scan are returned only when the send succeeds as well.
Bridge_tcpudp_receive(bridge, received, addrs, binds, fail) ==
    LET Out(b, datagrams, res, cmds, left) ==
            [bridge |-> b, datagrams |-> datagrams, res |-> res, cmds |-> cmds,
             binds |-> left]
        Sent(sc, s) ==
            Out([bridge EXCEPT !.raknet = s.conn], s.datagrams, s.res,
                IF s.res = "Ok" THEN sc.cmds ELSE << >>, sc.binds)
        Scanned(sc) ==
            IF sc.res # "Ok" THEN Out(bridge, << >>, sc.res, << >>, sc.binds)
            ELSE Sent(sc, Connection_send(bridge.raknet, sc.packets, fail))
    IN IF received.res # "Ok"
       THEN Out(bridge, << >>, received.res, << >>, binds)
       ELSE Scanned(scan_packets(received.packets, addrs, binds, << >>, 1))

\* What dropping a bridge does: its RakNet connection's destructor runs.
Dropped(address, bridge) ==
    [address |-> address, raknet |-> bridge.raknet,
     datagrams |-> Connection_drop(bridge.raknet)]


\* ------------------------------------------------------------------ main.rs

VARIABLES
    shims,      \* main's `shims`: each Shim's connect_addr, local address and bridges
    addrs,      \* main's `addrs`: remote address -> local address of its shim
    cmds,       \* the ShimCommands collected in this iteration of main's loop
    pc,         \* where main's loop is: the shim being stepped and the phase of its step
    todo,       \* the bridges `retain` has not visited yet in this step
    packets,    \* the packets the last handle_datagram returned
    forwarded,  \* what the last action wrote to the TcpUdp side
    sent,       \* the datagrams the last action handed to the RakNet socket (destructors apart)
    dropped,    \* the bridges the last action dropped, with what their destructors sent
    last,       \* the last action: its name, the source address, its input, its result
    BUF,        \* main.rs:40, the buffer every recv and recv_from of the process
                \* writes, as far as main reads it past a datagram's end (BUF_head)
    unit        \* a function of the program run on its own, as its unit tests run it:
                \* its name, its input and what it returned (None while main runs)

vars == << shims, addrs, cmds, pc, todo, packets, forwarded, sent, dropped, last, BUF, unit >>

\* The address that main's connect_domain resolves to (main.rs:168): "10.0.0.1".
AuthHost == << 49, 48, 46, 48, 46, 48, 46, 49 >>

\* The shims the process runs at most.
MaxShims == 3

\* The variables of main and its shims.
main_vars == << shims, addrs, cmds, pc, todo, packets, forwarded, sent, dropped, last, BUF >>

\* main.rs:167-172, before the loop
Started ==
    /\ shims = << Shim_new(SocketAddr(Loopback, 1001), SocketAddr(AuthHost, 1002)) >>
    /\ addrs = [a \in { SocketAddr(AuthHost, 1002) } |-> SocketAddr(Loopback, 1001)]
    /\ cmds = << >>
    /\ pc = [shim |-> 1, phase |-> "raknet_receive"]
    /\ todo = {}
    /\ packets = << >>
    /\ forwarded = << >>
    /\ sent = << >>
    /\ dropped = {}
    /\ last = [op |-> "init", source |-> "", input |-> << >>, res |-> "Ok", paths |-> << >>]
    /\ BUF = << >>

Init ==
    /\ Started
    /\ unit = None

Last(op, source, input, res, paths) ==
    [op |-> op, source |-> source, input |-> input, res |-> res, paths |-> paths]

Bridges == shims[pc.shim].bridges

\* The destructors of every bridge of every shim, `except` replacing the
\* bridges of the shim being stepped.
DropAll(except) ==
    { Dropped(a, except[a]) : a \in DOMAIN except }
    \cup UNION { { Dropped(a, shims[k].bridges[a]) : a \in DOMAIN shims[k].bridges } :
                 k \in (DOMAIN shims) \ {pc.shim} }

\* main returns the error of a step, or a panic unwinds it: `shims` is dropped.
Exit(bridges) ==
    /\ shims' = << >>
    /\ pc' = [pc EXCEPT !.phase = "exited"]
    /\ todo' = {}
    /\ dropped' = DropAll(bridges)
    /\ cmds' = << >>
    /\ UNCHANGED addrs

\* Shim::raknet_receive, a datagram from an address with no bridge: `data`
\* are its bytes, `connect` what TcpUdpConn::new does in create_bridge,
\* `reply_ok` whether send_to succeeds.
RecvFromUnknown(source, data, connect, reply_ok) ==
    /\ UNCHANGED unit
    /\ pc.phase = "raknet_receive"
    /\ source \notin DOMAIN Bridges
    /\ BUF' = BUF_head(BUF_recv(BUF, data))
    /\ packets' = << >>
    /\ forwarded' = << >>
    /\ IF Len(data) <= 2 /\ BUF_at(BUF_recv(BUF, data), 0) = OpenConnectionRequest
       THEN LET created == IF connect = "Ok"
                           THEN MapInsert(Bridges, source,
                                          Bridge_new(Connection_new(source), TcpUdp_new))
                           ELSE Bridges
                response == IF connect = "Ok" THEN OpenConnectionReply
                            ELSE NoFreeIncomingConnections
            IN /\ sent' = << RawDatagram(source, << response, 0 >>) >>
               /\ last' = Last("open", source, data, IF reply_ok THEN connect ELSE "Err", << >>)
               /\ IF reply_ok
                  THEN /\ shims' = [shims EXCEPT ![pc.shim].bridges = created]
                       /\ dropped' = {}
                       /\ UNCHANGED << addrs, cmds, pc, todo >>
                  ELSE Exit(created)
       ELSE /\ sent' = << >>
            /\ dropped' = {}
            /\ last' = Last("ignored", source, data, "Ok", << >>)
            /\ UNCHANGED << shims, addrs, cmds, pc, todo >>

\* Shim::raknet_receive, a datagram from an address with a bridge
\* (main.rs:131-136): `new_fail` is the packet at which the TcpUdp send fails.
RecvFromKnown(source, dgram, new_fail) ==
    /\ UNCHANGED unit
    /\ pc.phase = "raknet_receive"
    /\ source \in DOMAIN Bridges
    /\ BUF' = BUF_head(BUF_recv(BUF, Wire(dgram)))
    /\ \E r \in { Bridge_raknet_receive(Bridges[source], dgram, new_fail) } :
       /\ packets' = r.packets
       /\ forwarded' = r.out
       /\ sent' = << >>
       /\ last' = Last("raknet_receive", source, dgram, r.res, r.paths)
       /\ IF r.res = "Ok"
          THEN /\ shims' = [shims EXCEPT ![pc.shim].bridges[source] = r.bridge]
               /\ dropped' = {}
               /\ UNCHANGED << addrs, cmds, pc, todo >>
          ELSE IF r.res = "panic"
          THEN Exit([Bridges EXCEPT ![source] = r.bridge])
          ELSE /\ shims' = [shims EXCEPT ![pc.shim].bridges = MapRemove(Bridges, source)]
               /\ dropped' = { Dropped(source, r.bridge) }
               /\ UNCHANGED << addrs, cmds, pc, todo >>

\* Shim::raknet_receive: recv_from would block (or ConnectionReset), the
\* drain ends and step goes on to `retain` (main.rs:76-77).
WouldBlock ==
    /\ UNCHANGED unit
    /\ pc.phase = "raknet_receive"
    /\ pc' = [pc EXCEPT !.phase = "retain"]
    /\ todo' = DOMAIN Bridges
    /\ packets' = << >>
    /\ forwarded' = << >>
    /\ sent' = << >>
    /\ dropped' = {}
    /\ last' = Last("would_block", "", << >>, "Ok", << >>)
    /\ UNCHANGED << shims, addrs, cmds, BUF >>

\* Shim::raknet_receive: recv_from fails otherwise; step and main return it.
RecvError ==
    /\ UNCHANGED unit
    /\ pc.phase = "raknet_receive"
    /\ packets' = << >>
    /\ forwarded' = << >>
    /\ sent' = << >>
    /\ last' = Last("recv_error", "", << >>, "Err", << >>)
    /\ UNCHANGED BUF
    /\ Exit(Bridges)

\* The ports of the sockets the process holds: those of the shims and of
\* the shims in the commands.
BoundPorts ==
    { shims[k].local_addr[2] : k \in DOMAIN shims }
    \cup { cmds[j].shim.local_addr[2] : j \in DOMAIN cmds }

\* The closure of `retain` for one bridge (main.rs:77-92): `received` is what
\* the TcpUdp side's receive returns, `binds` the ports the system gives to
\* the shims the scan starts (0: the bind fails; a port given is not one the
\* process holds), `fail` the send_to call that fails.
TcpUdpReceive(address, received, binds, fail) ==
    /\ UNCHANGED unit
    /\ pc.phase = "retain"
    /\ address \in todo
    /\ \A j \in DOMAIN binds :
          binds[j] # 0 => /\ binds[j] \notin BoundPorts
                          /\ \A k \in DOMAIN binds : binds[k] = binds[j] => k = j
    /\ \E u \in { TcpUdp_received(Bridges[address].tcpudp, BUF, received.packets, 1) } :
       \E r \in { Bridge_tcpudp_receive([Bridges[address] EXCEPT !.tcpudp = u.tcpudp],
                                        received, addrs, binds, fail) } :
       /\ r.res # "bind"
       /\ r.binds = << >>
       /\ Len(shims) + Len(cmds) + Len(r.cmds) <= MaxShims
       /\ BUF' = BUF_head(u.BUF)
       /\ packets' = << >>
       /\ forwarded' = << >>
       /\ sent' = r.datagrams
       /\ last' = Last("tcpudp_receive", address, received, r.res, << >>)
       /\ IF r.res = "Ok"
          THEN /\ shims' = [shims EXCEPT ![pc.shim].bridges[address] = r.bridge]
               /\ cmds' = cmds \o r.cmds
               /\ todo' = todo \ {address}
               /\ dropped' = {}
               /\ UNCHANGED << addrs, pc >>
          ELSE IF r.res = "panic"
          THEN Exit([Bridges EXCEPT ![address] = r.bridge])
          ELSE /\ shims' = [shims EXCEPT ![pc.shim].bridges = MapRemove(Bridges, address)]
               /\ todo' = todo \ {address}
               /\ dropped' = { Dropped(address, r.bridge) }
               /\ UNCHANGED << addrs, cmds, pc >>

\* The commands applied without an entry in `addrs` for the new shims.
addrs_inserted_none(map, commands, j) == map

\* main.rs:183-190: `addrs` after the commands from command j on, each
\* insert replacing the entry of its connect_addr.
RECURSIVE addrs_inserted(_, _, _)
addrs_inserted(map, commands, j) ==
    IF j > Len(commands) THEN map
    ELSE addrs_inserted(MapInsert(map, commands[j].connect_addr,
                                  commands[j].shim.local_addr),
                        commands, j + 1)

\* `retain` has visited every bridge: step returns; after the last shim the
\* commands are applied and the loop starts over (main.rs:180-191).
EndStep ==
    /\ UNCHANGED unit
    /\ pc.phase = "retain"
    /\ todo = {}
    /\ pc' = IF pc.shim < Len(shims)
             THEN [shim |-> pc.shim + 1, phase |-> "raknet_receive"]
             ELSE [shim |-> 1, phase |-> "raknet_receive"]
    /\ cmds' = IF pc.shim < Len(shims) THEN cmds ELSE << >>
    /\ shims' = IF pc.shim < Len(shims) THEN shims
                ELSE shims \o [j \in DOMAIN cmds |-> cmds[j].shim]
    /\ addrs' = IF pc.shim < Len(shims) THEN addrs ELSE addrs_inserted(addrs, cmds, 1)
    /\ packets' = << >>
    /\ forwarded' = << >>
    /\ sent' = << >>
    /\ dropped' = {}
    /\ last' = Last("end_step", "", << >>, "Ok", << >>)
    /\ UNCHANGED << BUF, todo >>


\* ------------------------------------------------------------------ environments

\* The client's OpenConnectionRequest
OpenRequest == << OpenConnectionRequest, 0 >>

NextRelOrd ==
    \/ RecvFromUnknown("client1", OpenRequest, "Ok", TRUE)
    \/ \E d \in RelOrdDatagrams : RecvFromKnown("client1", d, 0)

\* One client whose datagrams carry ReliableOrdered sub-packets.
SpecRelOrd == Init /\ [][NextRelOrd]_vars


NextUnrelSeq ==
    \/ RecvFromUnknown("client1", OpenRequest, "Ok", TRUE)
    \/ \E d \in UnrelSeqDatagrams : RecvFromKnown("client1", d, 0)

\* One client whose datagrams carry UnreliableSequenced sub-packets.
SpecUnrelSeq == Init /\ [][NextUnrelSeq]_vars


\* The largest message number of the acknowledgement traffic.
MaxMsg == 3

\* Sub-packets of every reliability under one message number: delivered,
\* early or duplicate ReliableOrdered, an incomplete split chunk, a
\* disconnect notification, and the two unreliable kinds.
AckPackets(m) ==
    { RaknetPacket(m, RD_Reliable, None, << Tag(0) >>),
      RaknetPacket(m, RD_Reliable, Some(SplitPacketInfo(0, 0, 2)), << Tag(0) >>),
      RaknetPacket(m, RD_Reliable, None, << DisconnectNotification >>),
      RaknetPacket(m, RD_Unreliable, None, << Tag(0) >>),
      unrel_seq(m, 0), rel_ord(m, 0), rel_ord(m, 1) }

\* Each of them alone in a datagram, under every message number.
AckDatagrams ==
    { Plain(<< p >>) : p \in UNION { AckPackets(m) : m \in 0 .. MaxMsg } }

NextAcks ==
    \/ RecvFromUnknown("client1", OpenRequest, "Ok", TRUE)
    \/ \E d \in AckDatagrams : RecvFromKnown("client1", d, 0)

\* One client whose datagrams are to be acknowledged.
SpecAcks == Init /\ [][NextAcks]_vars


\* The largest count of a split packet.
MaxSplitCount == 3

\* The chunks of split packets: split id n is cut into n + 2 chunks, chunk i
\* carrying a byte that names it, in a Reliable or an Unreliable sub-packet;
\* the first chunk may carry a second byte.
SplitChunkPackets ==
    UNION { { RaknetPacket(0, rel, Some(SplitPacketInfo(count - 2, index, count)), data) :
                rel \in { RD_Reliable, RD_Unreliable },
                data \in { << Tag(index) >> }
                         \cup { << Tag(index), Tag(count) >> : i \in { index } \cap { 0 } } } :
            index \in 0 .. MaxSplitCount - 1,
            count \in 2 .. MaxSplitCount }

\* The chunks whose index is below their count, each alone in a datagram.
SplitDatagrams ==
    { Plain(<< p >>) :
        p \in { q \in SplitChunkPackets :
                  q.split_packet_info[1].index < q.split_packet_info[1].count } }

NextSplit ==
    \/ RecvFromUnknown("client1", OpenRequest, "Ok", TRUE)
    \/ \E d \in SplitDatagrams : RecvFromKnown("client1", d, 0)

\* One client whose datagrams carry the chunks of split packets.
SpecSplit == Init /\ [][NextSplit]_vars


\* Chunks as a peer may send them: under two split ids, with every count
\* from 2 to MaxSplitCount whatever count the id was first seen with, and
\* with every index up to MaxSplitCount.
SplitAnyDatagrams ==
    { Plain(<< RaknetPacket(0, RD_Reliable, Some(SplitPacketInfo(id, index, count)),
                            << Tag(index) >>) >>) :
        id \in 0 .. 1, index \in 0 .. MaxSplitCount, count \in 2 .. MaxSplitCount }

NextSplitAny ==
    \/ RecvFromUnknown("client1", OpenRequest, "Ok", TRUE)
    \/ \E d \in SplitAnyDatagrams : RecvFromKnown("client1", d, 0)

\* One client whose chunks need not agree with each other.
SpecSplitAny == Init /\ [][NextSplitAny]_vars


\* Every reliability, with every ordinal.
AllRelData ==
    { RD_Unreliable, RD_Reliable }
    \cup { RD_UnreliableSequenced(o) : o \in U32 }
    \cup { RD_ReliableOrdered(o) : o \in U32 }

\* Disconnect notifications under every reliability and ordinal, bare or
\* followed by a byte, alone or ahead of an ordered packet; the first
\* ordered packets; and a packet split in two with the id in its first or its
\* second chunk.
DisconnectDatagrams ==
    { Plain(<< RaknetPacket(0, rel, None, data) >>) :
        rel \in AllRelData,
        data \in { << DisconnectNotification >>, << DisconnectNotification, Tag(0) >> } }
    \cup { Plain(<< RaknetPacket(0, RD_Reliable, None, << DisconnectNotification >>),
                    rel_ord(1, o) >>) : o \in 0 .. 2 }
    \cup { Plain(<< rel_ord(0, o) >>) : o \in 0 .. 2 }
    \cup { Plain(<< RaknetPacket(0, RD_Reliable, Some(SplitPacketInfo(0, index, 2)), data) >>) :
             index \in 0 .. 1, data \in { << DisconnectNotification >>, << Tag(0) >> } }

NextDisconnect ==
    \/ RecvFromUnknown("client1", OpenRequest, "Ok", TRUE)
    \/ \E d \in DisconnectDatagrams : RecvFromKnown("client1", d, 0)

\* One client that sends disconnect notifications among its packets.
SpecDisconnect == Init /\ [][NextDisconnect]_vars


\* The clients of the relay.
Clients == { "client1", "client2" }

\* What a client sends to its bridge: a Reliable packet, a disconnect
\* notification, a datagram that ends inside its header, one whose
\* sub-packet has an unknown reliability, and one whose sub-packet is the
\* only part of a split packet.
ShimDatagrams ==
    { Plain(<< RaknetPacket(0, RD_Reliable, None, << Tag(0) >>) >>),
      Plain(<< RaknetPacket(0, RD_Reliable, None, << DisconnectNotification >>) >>),
      LegDatagram("eof", None, << >>, "ok"),
      LegDatagram("ok", None, << >>, "panic"),
      Plain(<< RaknetPacket(0, RD_Reliable, Some(SplitPacketInfo(0, 0, 1)), << Tag(0) >>) >>) }

\* What the TcpUdp side's receive returns to a bridge: nothing, one packet,
\* or an I/O error.
ShimReceived ==
    { [res |-> "Ok", packets |-> << >>],
      [res |-> "Ok", packets |-> << [reliability |-> "Reliable", data |-> << Tag(0) >>] >>],
      [res |-> "Err", packets |-> << >>] }

NextShim ==
    \/ \E c \in Clients, connect \in { "Ok", "Err" }, reply_ok \in BOOLEAN :
          RecvFromUnknown(c, OpenRequest, connect, reply_ok)
    \/ \E c \in Clients : RecvFromUnknown(c, << Tag(0) >>, "Ok", TRUE)
    \/ \E c \in Clients, d \in ShimDatagrams, new_fail \in 0 .. 1 :
          RecvFromKnown(c, d, new_fail)
    \/ WouldBlock
    \/ RecvError
    \/ \E c \in Clients, received \in ShimReceived, fail \in 0 .. 1 :
          TcpUdpReceive(c, received, << >>, fail)
    \/ EndStep

\* The relay with two clients, through the iterations of main's loop.
SpecShim == Init /\ [][NextShim]_vars


\* Reliable sub-packets under every message number, one per datagram: each
\* one is an insert into the connection's RangeList of pending acks.
\* One Reliable sub-packet under every message number.
RangeListDatagrams ==
    { Plain(<< RaknetPacket(m, RD_Reliable, None, << Tag(0) >>) >>) : m \in U32 }

NextRangeList ==
    \/ RecvFromUnknown("client1", OpenRequest, "Ok", TRUE)
    \/ \E d \in RangeListDatagrams : RecvFromKnown("client1", d, 0)

\* One client whose message numbers arrive in any order, with repetitions.
SpecRangeList == Init /\ [][NextRangeList]_vars


\* Bytes that are zero, fit the low half byte, need the high half byte, or
\* have every bit set.
ByteSamples == { 0, 1, 15, 16, 128, 255 }

\* u16 and u32 values, as their bytes from the lowest to the highest.
CompressedValues ==
    { << b0, b1 >> : b0 \in ByteSamples, b1 \in ByteSamples }
    \cup { << b0, b1, b2, b3 >> : b0 \in ByteSamples, b1 \in ByteSamples,
                                  b2 \in ByteSamples, b3 \in ByteSamples }

\* A value to be written as Compressed<u16> or Compressed<u32>.
InitCompressed ==
    /\ Started
    /\ unit \in { [fn |-> "Compressed", value |-> v] : v \in CompressedValues }

\* writer.write(Compressed(value)), the writer dropped (comp.rs tests).
CompressedWrite ==
    /\ unit.fn = "Compressed"
    /\ unit' = [fn |-> "Compressed::serialize", value |-> unit.value,
                bits |-> Flushed(Compressed_serialize(unit.value))]
    /\ UNCHANGED main_vars

\* reader.read::<Compressed<T>>() on what was written.
CompressedRead ==
    /\ unit.fn = "Compressed::serialize"
    /\ unit' = [fn |-> "Compressed::deserialize", value |-> unit.value, bits |-> unit.bits,
                read |-> Compressed_deserialize(unit.bits, Len(unit.value))]
    /\ UNCHANGED main_vars

NextCompressed == CompressedWrite \/ CompressedRead

\* The compressed integers written and read back.
SpecCompressed == InitCompressed /\ [][NextCompressed]_vars


\* A payload of n bytes.
Bytes(n) == [i \in 1 .. n |-> i % 256]

Reliabilities == { "Unreliable", "UnreliableSequenced", "Reliable", "ReliableOrdered" }

\* The payload lengths around the tests of process_outgoing_packets: one
\* byte, the longest payload sent whole, the shortest one split, two full
\* chunks, two full chunks and a byte, and the payload of tests::split_packet.
SendLengths(rel) ==
    { 1,
      MAX_PACKET_SIZE - header_len(rel, FALSE),
      MAX_PACKET_SIZE - header_len(rel, FALSE) + 1,
      2 * (MAX_PACKET_SIZE - header_len(rel, TRUE)),
      2 * (MAX_PACKET_SIZE - header_len(rel, TRUE)) + 1,
      3 * MAX_PACKET_SIZE }

\* What the TcpUdp side hands over in one receive: a packet of any
\* reliability, of one byte or just long enough to be split, or two packets
\* of the two ordered kinds.
SendBatches ==
    { << [reliability |-> rel, data |-> Bytes(n)] >> :
        rel \in Reliabilities, n \in { 1, MAX_PACKET_SIZE } }
    \cup { << [reliability |-> "UnreliableSequenced", data |-> Bytes(1)],
              [reliability |-> "ReliableOrdered", data |-> Bytes(1)] >>,
           << [reliability |-> "ReliableOrdered", data |-> Bytes(MAX_PACKET_SIZE)],
              [reliability |-> "UnreliableSequenced", data |-> Bytes(1)] >> }

\* What Connection::receive of the TcpUdp side returns for them.
SendReceived == { [res |-> "Ok", packets |-> p] : p \in SendBatches }

NextSend ==
    \/ RecvFromUnknown("client1", OpenRequest, "Ok", TRUE)
    \/ WouldBlock
    \/ \E received \in SendReceived : TcpUdpReceive("client1", received, << >>, 0)
    \/ EndStep

\* One client to whom the relay sends what the TcpUdp side receives.
SpecSend == Init /\ [][NextSend]_vars


\* The largest length field, in bits, of the sub-packets decoded.
MaxLengthBits == 24

\* The bytes of a sub-packet as a sender puts it on the wire: the header with
\* the length field `length` (in bits), then, from the next byte on, the
\* bytes that hold that many bits.
SubPacketBytes(message_number, rel_data, split_packet_info, length) ==
    BytesOf(WriteLowBytes(write_u32(message_number), 0, 4)
            \o ReliabilityData_serialize(rel_data)
            \o (IF split_packet_info # None
                THEN << 1 >> \o SplitPacketInfo_serialize(split_packet_info[1])
                ELSE << 0 >>)
            \o Compressed_serialize(write_u16(length)))
    \o Bytes((length + 7) \div 8)

\* A sub-packet of every kind, whole or a chunk, with every length field up
\* to MaxLengthBits.
InitDecode ==
    /\ Started
    /\ unit \in { [fn |-> "RaknetPacket", message_number |-> m, rel_data |-> rel,
                    split_packet_info |-> split, length |-> length,
                    bytes |-> SubPacketBytes(m, rel, split, length)] :
                    m \in 0 .. 1,
                    rel \in { RD_Unreliable, RD_UnreliableSequenced(1), RD_Reliable,
                              RD_ReliableOrdered(2) },
                    split \in { None, Some(SplitPacketInfo(1, 0, 2)) },
                    length \in 0 .. MaxLengthBits }

\* reader.read::<RaknetPacket>() on the bytes (recv.rs:23).
Decode ==
    /\ unit.fn = "RaknetPacket"
    /\ unit' = [fn |-> "RaknetPacket::deserialize", length |-> unit.length,
                bytes |-> unit.bytes,
                read |-> RaknetPacket_deserialize(WriteLowBytes(unit.bytes, 0, Len(unit.bytes)))]
    /\ UNCHANGED main_vars

NextDecode == Decode

\* Sub-packets read from their bytes.
SpecDecode == InitDecode /\ [][NextDecode]_vars


\* The number of send calls looped back.
MaxLoopCalls == 3

\* The packets sent in one call: one of any kind, empty, of one byte, the
\* longest sent whole or long enough to be split in two or in three, and two
\* of the ordered kinds, one of them split.
LoopBatches ==
    { << [reliability |-> rel, data |-> Bytes(n)] >> :
        rel \in Reliabilities, n \in { 0, 1, MAX_PACKET_SIZE, 2 * MAX_PACKET_SIZE } }
    \cup { << [reliability |-> rel, data |-> Bytes(MAX_PACKET_SIZE - header_len(rel, FALSE))] >> :
             rel \in Reliabilities }
    \cup { << [reliability |-> a, data |-> Bytes(MAX_PACKET_SIZE)],
              [reliability |-> b, data |-> << Tag(1) >>],
              [reliability |-> a, data |-> << Tag(2) >>] >> :
             a \in { "UnreliableSequenced", "ReliableOrdered" },
             b \in { "UnreliableSequenced", "ReliableOrdered" } }

\* A fresh SendPart and a fresh ReceivePart.
InitLoop ==
    /\ Started
    /\ unit = [fn |-> "loopback", calls |-> 0, send |-> SendPart_new("client1"),
               recv |-> ReceivePart_default, closed |-> FALSE, packets |-> << >>,
               rak_packets |-> << >>, out |-> << >>, panicked |-> FALSE]

\* process_outgoing_packets, and its sub-packets, in the order produced, given to
\* process_incoming_packets.
LoopCall(batch) ==
    /\ unit.fn = "loopback"
    /\ unit.calls < MaxLoopCalls
    /\ ~unit.panicked
    /\ \E po \in { process_outgoing_packets(unit.send, batch, 1) } :
       \E pi \in { process_incoming_packets(unit.recv, po.rak_packets, RangeList_new,
                                            unit.closed) } :
          unit' = [fn |-> "loopback", calls |-> unit.calls + 1, send |-> po.send,
                   recv |-> pi.recv, closed |-> pi.closed, packets |-> batch,
                   rak_packets |-> po.rak_packets, out |-> pi.packets,
                   panicked |-> pi.panicked]
    /\ UNCHANGED main_vars

NextLoop == \E batch \in LoopBatches : LoopCall(batch)

\* What one engine sends is what the other receives.
SpecLoop == InitLoop /\ [][NextLoop]_vars


\* What the TcpUdp side hands over while acknowledgements are pending:
\* nothing, one packet, two packets, and a packet long enough to be split.
AckSendBatches ==
    { << >>,
      << [reliability |-> "Reliable", data |-> << Tag(0) >>] >>,
      << [reliability |-> "Unreliable", data |-> << Tag(0) >>],
         [reliability |-> "ReliableOrdered", data |-> << Tag(1) >>] >>,
      << [reliability |-> "Reliable", data |-> Bytes(MAX_PACKET_SIZE)] >> }

\* What the client sends meanwhile: a Reliable or an Unreliable sub-packet
\* under every message number.
AckSendDatagrams ==
    { Plain(<< RaknetPacket(m, rel, None, << Tag(0) >>) >>) :
        m \in 0 .. MaxMsg, rel \in { RD_Reliable, RD_Unreliable } }

\* The client's disconnect notification.
AckSendDisconnect ==
    { Plain(<< RaknetPacket(0, RD_Reliable, None, << DisconnectNotification >>) >>) }

NextAckSend ==
    \/ RecvFromUnknown("client1", OpenRequest, "Ok", TRUE)
    \/ \E d \in AckSendDatagrams : RecvFromKnown("client1", d, 0)
    \/ \E d \in AckSendDisconnect : RecvFromKnown("client1", d, 0)
    \/ WouldBlock
    \/ \E p \in AckSendBatches, fail \in 0 .. 2 :
          /\ "client1" \in DOMAIN Bridges
          /\ p = << >> \/ Bridges["client1"].raknet.send.message_number < MaxMsg
          /\ TcpUdpReceive("client1", [res |-> "Ok", packets |-> p], << >>, fail)
    \/ EndStep

\* One client whose reliable datagrams are acknowledged by what the relay
\* sends, tick after tick; once the relay has sent MaxMsg sub-packets or
\* more, the server has nothing more for the client.
SpecAckSend == Init /\ [][NextAckSend]_vars


\* What the TcpUdp side hands over in one receive: a packet of a kind without
\* ordinal and of any length, or one packet of each ordered kind, one of them
\* of any length.
SplitBatches ==
    { << [reliability |-> rel, data |-> Bytes(n)] >> :
        rel \in { "Unreliable", "Reliable" }, n \in SendLengths("Unreliable") }
    \cup { << [reliability |-> "UnreliableSequenced", data |-> Bytes(n)],
              [reliability |-> "ReliableOrdered", data |-> Bytes(1)] >> :
             n \in SendLengths("UnreliableSequenced") }
    \cup { << [reliability |-> "UnreliableSequenced", data |-> Bytes(1)],
              [reliability |-> "ReliableOrdered", data |-> Bytes(n)] >> :
             n \in SendLengths("ReliableOrdered") }

\* What Connection::receive of the TcpUdp side returns for them.
SplitReceived == { [res |-> "Ok", packets |-> p] : p \in SplitBatches }

NextSendSplit ==
    \/ RecvFromUnknown("client1", OpenRequest, "Ok", TRUE)
    \/ WouldBlock
    \/ \E received \in SplitReceived : TcpUdpReceive("client1", received, << >>, 0)
    \/ EndStep

\* One client to whom the relay sends payloads of the lengths around the
\* split threshold.
SpecSendSplit == Init /\ [][NextSendSplit]_vars


\* The most frames the peer writes.
MaxFrames == 2

\* The most bytes of one piece of the stream, unless the piece is all there is.
MaxPiece == 5

\* The last byte of the stream after which a piece ends, unless it is the
\* stream's last piece.
MaxCut == 12

\* The bodies of the peer's frames: none, one byte, two bytes.
FrameBodies == { << >>, << 7 >>, << 8, 9 >> }

\* What the peer writes: up to MaxFrames short frames, or one frame whose
\* length does not fit one byte.
FrameLists ==
    UNION { [1 .. n -> FrameBodies] : n \in 1 .. MaxFrames } \cup { << Bytes(256) >> }

\* The byte stream of these frames from frame i on.
RECURSIVE Stream(_, _)
Stream(frames, i) ==
    IF i > Len(frames)
    THEN << >>
    ELSE write_u32(Len(frames[i])) \o frames[i] \o Stream(frames, i + 1)

\* tests_tcp::setup with the frames the server is going to write.
InitTcp ==
    /\ Started
    /\ unit \in { [fn |-> "Connection::new", conn |-> TcpUdp_new, frames |-> f, written |-> 0,
                   wire |-> << >>, packets |-> << >>, res |-> "Ok"] : f \in FrameLists }

\* The server writes the next n bytes of its stream.
PeerWrite(n) ==
    /\ unit.fn \in { "Connection::new", "TcpStream::write", "Connection::receive" }
    /\ unit.res = "Ok"
    /\ n >= 1
    /\ \/ unit.written + n <= Min(MaxCut, Len(Stream(unit.frames, 1)))
       \/ unit.written + n = Len(Stream(unit.frames, 1))
    /\ unit' = [unit EXCEPT !.fn = "TcpStream::write",
                            !.written = @ + n,
                            !.wire = @ \o SubSeq(Stream(unit.frames, 1), unit.written + 1,
                                                 unit.written + n),
                            !.packets = << >>]
    /\ UNCHANGED main_vars

\* The pieces of `wire` before and behind its c-th byte.
Pieces(wire, c) ==
    SelectSeq(<< SubSeq(wire, 1, c), SubSeq(wire, c + 1, Len(wire)) >>,
              LAMBDA piece : piece # << >>)

\* Connection::receive with what has been written in flight: the reads find
\* it in the pieces cut at c, then `end`.
TcpReceive(c, end) ==
    /\ unit.fn \in { "Connection::new", "TcpStream::write", "Connection::receive" }
    /\ unit.res = "Ok"
    /\ c <= Len(unit.wire)
    /\ \E r \in { TcpUdp_receive(unit.conn, << >>, Pieces(unit.wire, c), end,
                                 << >>, "WouldBlock") } :
          unit' = [unit EXCEPT !.fn = "Connection::receive",
                               !.conn = r.tcpudp,
                               !.wire = << >>,
                               !.packets = r.packets,
                               !.res = r.res]
    /\ UNCHANGED main_vars

NextTcp ==
    \/ \E n \in 1 .. MaxPiece : PeerWrite(n)
    \/ PeerWrite(Len(Stream(unit.frames, 1)) - unit.written)
    \/ \E c \in 0 .. MaxPiece, end \in { "WouldBlock", "Eof", "ConnectionReset" } :
          TcpReceive(c, end)

\* A TcpUdp connection whose peer writes frames in pieces, as tests_tcp does.
SpecTcp == InitTcp /\ [][NextTcp]_vars


\* A datagram of the server for an Unreliable packet
unrel_datagram(data) == << 0 >> \o data

\* A datagram of the server for an UnreliableSequenced packet
unrel_seq_datagram(seq_num, data) == << 1 >> \o write_u32(seq_num) \o data

\* The datagrams of the server that hold what their tag announces: with and
\* without payload, under every sequence number.
UdpDatagrams ==
    { unrel_datagram(data) : data \in { << >>, << 104 >> } }
    \cup { unrel_seq_datagram(seq_num, data) : seq_num \in U32, data \in { << >>, << 104 >> } }

\* Datagrams that end before it: empty, a tag alone, a tag and half a
\* sequence number; and a datagram with a tag that is none.
OddDatagrams == { << >>, << 1 >>, << 1, 2, 0 >>, << 2, 104 >> }

\* What the socket holds when receive is called: a datagram, or a sequenced
\* one followed by the one numbered the same, the next, or the one before.
UdpArrivals ==
    { << d >> : d \in UdpDatagrams \cup OddDatagrams }
    \cup { << unrel_seq_datagram(a, << 104 >>),
              unrel_seq_datagram(wrapping_add(a, b), << >>) >> :
             a \in U32, b \in { 0, 1, U32Max } }

\* tests_udp::setup
InitUdp ==
    /\ Started
    /\ unit = [fn |-> "Connection::new", conn |-> TcpUdp_new, BUF |-> << >>,
               datagrams |-> << >>, packets |-> << >>, res |-> "Ok"]

\* Connection::receive with these datagrams in the socket and nothing on the
\* TCP stream; `end` is what recv returns after them.
UdpReceive(datagrams, end) ==
    /\ unit.res = "Ok"
    /\ \E r \in { TcpUdp_receive(unit.conn, unit.BUF, << >>, "WouldBlock", datagrams, end) } :
          unit' = [fn |-> "Connection::receive", conn |-> r.tcpudp, BUF |-> r.BUF,
                   datagrams |-> datagrams, packets |-> r.packets, res |-> r.res]
    /\ UNCHANGED main_vars

NextUdp ==
    \E datagrams \in UdpArrivals, end \in { "WouldBlock", "ConnectionReset" } :
       UdpReceive(datagrams, end)

\* A TcpUdp connection whose peer sends it datagrams, as tests_udp does.
SpecUdp == InitUdp /\ [][NextUdp]_vars


\* What Connection::send is given: a packet of any reliability, empty, of one
\* byte or longer than one byte can count, or two packets of any two
\* reliabilities.
NewBatches ==
    { << [reliability |-> rel, data |-> data] >> :
        rel \in Reliabilities, data \in { << >>, << 104 >>, Bytes(258) } }
    \cup { << [reliability |-> a, data |-> << 104 >>],
              [reliability |-> b, data |-> << 105, 106 >>] >> : a, b \in Reliabilities }

\* tests_tcp::setup, tests_udp::setup
InitNewSend ==
    /\ Started
    /\ unit = [fn |-> "Connection::new", conn |-> TcpUdp_new, packets |-> << >>,
               out |-> << >>, res |-> "Ok"]

\* Connection::send; the `fail`-th write or send meets an I/O error (0: none).
NewSend(batch, fail) ==
    /\ unit.res = "Ok"
    /\ fail <= Len(batch)
    /\ \E r \in { TcpUdp_send(unit.conn, batch, fail) } :
          unit' = [fn |-> "Connection::send", conn |-> r.tcpudp, packets |-> batch,
                   out |-> r.out, res |-> r.res]
    /\ UNCHANGED main_vars

NextNewSend ==
    \E batch \in NewBatches, fail \in 0 .. 2 : NewSend(batch, fail)

\* A TcpUdp connection that is given packets to send, as the send tests of
\* tests_tcp and tests_udp do.
SpecNewSend == InitNewSend /\ [][NextNewSend]_vars

\* What an address with no bridge sends: nothing at all, an
\* OpenConnectionRequest of one, two and three bytes, and other short
\* datagrams.
DispatchData ==
    { << >>, << OpenConnectionRequest >>, OpenRequest, << OpenConnectionRequest, 0, 0 >>,
      << 0 >>, << OpenConnectionReply, 0 >>, << Tag(0), OpenConnectionRequest >> }

NextDispatch ==
    \/ \E c \in Clients, data \in DispatchData, connect \in { "Ok", "Err" },
          reply_ok \in BOOLEAN :
          RecvFromUnknown(c, data, connect, reply_ok)
    \/ \E c \in Clients, d \in ShimDatagrams, new_fail \in 0 .. 1 :
          RecvFromKnown(c, d, new_fail)

\* Datagrams of every length from addresses with and without a bridge, one
\* after the other into the same buffer.
SpecDispatch == Init /\ [][NextDispatch]_vars

\* "192.168.0.2", a world server the relay has no shim for at the start.
WorldHost == << 49, 57, 50, 46, 49, 54, 56, 46, 48, 46, 50 >>

\* A redirect packet (bridge.rs:120-143): 83, 5, then 14 at data[3], the
\* host at data[8..41], the port at data[41..43], and a byte behind them.
Redirect(host, port) ==
    << 83, 5, 0, 14, 0, 0, 0, 0 >> \o host \o Zeros(33 - Len(host)) \o write_u16(port)
    \o << Tag(1) >>

\* A login response (bridge.rs:95-118): 83, 5, then 0 at data[3], 1 at
\* data[8], the host at data[345..378], the port at data[411..413], 415
\* bytes in all.
LoginResponse(host, port) ==
    << 83, 5, 0, 0, 0, 0, 0, 0, 1 >> \o [k \in 1 .. 336 |-> Tag(2)]
    \o host \o Zeros(33 - Len(host)) \o [k \in 1 .. 33 |-> Tag(3)] \o write_u16(port)
    \o << Tag(4), Tag(5) >>

\* The packets a server sends to one client.
MaxScanned == 2

\* What the NEW server sends: redirects and login responses that name a
\* world server by address, the auth server the first shim relays to, and
\* "localhost"; packets the scan passes by (no 83 5 at the start; a login
\* response that failed, data[8] = 0; one of 413 bytes; another message of
\* the same family); a host without its terminator; a redirect cut inside
\* its host; and a host that is a name no resolver knows.
ScanData ==
    { Redirect(WorldHost, 2001), Redirect(AuthHost, 1002), Redirect(Localhost, 2001),
      LoginResponse(WorldHost, 2001),
      << Tag(0) >>,
      [LoginResponse(WorldHost, 2001) EXCEPT ![9] = 0],
      SubSeq(LoginResponse(WorldHost, 2001), 1, 413),
      [Redirect(WorldHost, 2001) EXCEPT ![4] = 15],
      Redirect([k \in 1 .. 33 |-> 49], 2001),
      SubSeq(Redirect(WorldHost, 2001), 1, 20),
      Redirect(<< 108, 117 >>, 2001) }

\* What the TcpUdp side's receive returns in one call: one packet, or a
\* redirect with another packet before or behind it.
ScanBatches ==
    LET P(d) == [reliability |-> "ReliableOrdered", data |-> d]
    IN { << P(d) >> : d \in ScanData }
       \cup { << P(Redirect(WorldHost, 2001)), P(d) >> :
                d \in { Redirect(WorldHost, 2001), Redirect(Localhost, 2001), << Tag(0) >> } }
       \cup { << P(<< Tag(0) >>), P(Redirect(WorldHost, 2001)) >> }

\* The ports the system gives to new shims: none needed, one, or two; 0 is
\* a bind that fails.
ScanBinds ==
    { << >> } \cup { << p >> : p \in { 0, 2101, 2102 } }
    \cup { << 2101, 2102 >>, << 2101, 0 >> }

NextScan ==
    \/ \E c \in Clients :
          /\ pc.shim = 1 \/ (pc.shim = 2 /\ c = "client2")
          /\ RecvFromUnknown(c, OpenRequest, "Ok", TRUE)
    \/ WouldBlock
    \/ \E c \in Clients, p \in ScanBatches, binds \in ScanBinds, fail \in 0 .. 2 :
          /\ pc.phase = "retain"
          /\ c \in DOMAIN Bridges
          /\ Bridges[c].raknet.send.message_number + Len(p) <= MaxScanned
          /\ TcpUdpReceive(c, [res |-> "Ok", packets |-> p], binds, fail)
    \/ EndStep

\* Two clients whose servers send them redirects and login responses,
\* MaxScanned packets to each at most, through the iterations of main's
\* loop: both connect to the first shim, the second also to the shim a
\* redirect started.
SpecScan == Init /\ [][NextScan]_vars

\* What Connection::receive of a bridge's TcpUdp side returns when the UDP
\* socket holds `datagrams` and the stream nothing, with the datagrams it
\* read.
Arrived(tcpudp, buf, datagrams) ==
    LET Returned(r) == [res |-> r.res, packets |-> r.packets, datagrams |-> datagrams]
    IN Returned(TcpUdp_receive(tcpudp, buf, << >>, "WouldBlock", datagrams, "WouldBlock"))

\* The datagrams a server sends to a bridge's UDP socket: an Unreliable
\* packet, the UnreliableSequenced packet with the next sequence number, and
\* datagrams with the tags 2 and 255.
TagArrivals(tcpudp) ==
    { << unrel_datagram(<< Tag(0) >>) >>,
      << unrel_seq_datagram(tcpudp.seq_num_recv, << Tag(1) >>) >>,
      << << 2, Tag(2) >> >>,
      << unrel_datagram(<< Tag(0) >>), << 255 >> >> }

NextNewUdp ==
    \/ \E c \in Clients : RecvFromUnknown(c, OpenRequest, "Ok", TRUE)
    \/ WouldBlock
    \/ \E c \in Clients :
          /\ pc.phase = "retain"
          /\ c \in DOMAIN Bridges
          /\ Bridges[c].raknet.send.message_number < MaxMsg
          /\ \E datagrams \in TagArrivals(Bridges[c].tcpudp) :
                TcpUdpReceive(c, Arrived(Bridges[c].tcpudp, BUF, datagrams), << >>, 0)
    \/ EndStep

\* Two clients of the relay whose server sends them UDP datagrams, up to
\* MaxMsg packets to each, through the iterations of main's loop.
SpecNewUdp == Init /\ [][NextNewUdp]_vars


\* ------------------------------------------------------------------ claims

\* The RakNet connection of a client of the first shim.
Raknet(address) == shims[1].bridges[address].raknet

HasBridge(address) == Len(shims) >= 1 /\ address \in DOMAIN shims[1].bridges

\* The step is a RakNet datagram of this client handled by its bridge.
Received(address) == last'.op = "raknet_receive" /\ last'.source = address

\* The ReliableOrdered packets among those handed up.
RelOrdOf(pkts) ==
    LET IsRelOrd(p) == p.reliability = "ReliableOrdered" IN SelectSeq(pkts, IsRelOrd)

\* C1: over any sequence of datagrams, the ReliableOrdered packets handed up
\* continue the ordinals where the previous ones ended: the k-th packet a call
\* returns has ordinal rel_ord_index + k - 1 (mod 2^32), and rel_ord_index
\* ends right after the last one, so no ordinal is skipped or handed up twice.
C1_RelOrdStrictOrder ==
    [][ Received("client1") =>
          /\ \A k \in 1 .. Len(RelOrdOf(packets')) :
                Untag(RelOrdOf(packets')[k].data)
                  = wrapping_add(Raknet("client1").recv.rel_ord_index, k - 1)
          /\ Raknet("client1")'.recv.rel_ord_index
               = wrapping_add(Raknet("client1").recv.rel_ord_index, Len(RelOrdOf(packets')))
      ]_vars

\* C1 witness: the ordinal u32::MAX arrives after ordinal 0 and both are
\* handed up in order, across the wrap.
C1_Witness ==
    /\ last.op = "raknet_receive"
    /\ Len(last.input.rak_packets) = 1
    /\ last.input.rak_packets[1].rel_data = RD_ReliableOrdered(U32Max)
    /\ Len(packets) = 2
    /\ Untag(packets[1].data) = U32Max
    /\ Untag(packets[2].data) = 0

\* The sequencing rule applied to the sub-packets of a datagram in turn, with
\* `window` the number of ordinals ahead of the index that are accepted.
RECURSIVE SequencedBy(_, _, _, _)
SequencedBy(window, index, rak_packets, i) ==
    IF i > Len(rak_packets) THEN [index |-> index, out |-> << >>]
    ELSE IF (rak_packets[i].rel_data[2] - index) % U32Mod < window
    THEN LET rest == SequencedBy(window, (rak_packets[i].rel_data[2] + 1) % U32Mod,
                                 rak_packets, i + 1)
         IN [index |-> rest.index, out |-> << PacketFrom(rak_packets[i]) >> \o rest.out]
    ELSE SequencedBy(window, index, rak_packets, i + 1)

\* What a datagram of UnreliableSequenced sub-packets does under a window.
SequencedStep(window) ==
    Received("client1") =>
       /\ packets' = SequencedBy(window, Raknet("client1").recv.unrel_seq_index,
                                 last'.input.rak_packets, 1).out
       /\ Raknet("client1")'.recv.unrel_seq_index
            = SequencedBy(window, Raknet("client1").recv.unrel_seq_index,
                          last'.input.rak_packets, 1).index

\* C4, as stated: an UnreliableSequenced(ord) sub-packet is accepted iff
\* (ord - unrel_seq_index) mod 2^32 < 2^31.  The code drops the sub-packet whose
\* difference is 2^31 - 1.
C4_WindowHalf == [][ SequencedStep(2 ^ (U32Bits - 1)) ]_vars

\* C4, amended: an UnreliableSequenced(ord) sub-packet is accepted iff
\* (ord - unrel_seq_index) mod 2^32 < 2^31 - 1 (u32::MAX / 2); accepted, it is
\* handed up and unrel_seq_index becomes ord + 1 (mod 2^32); otherwise it is
\* dropped and unrel_seq_index stays, also across the wrap.
C4_WindowMaxHalf == [][ SequencedStep(2 ^ (U32Bits - 1) - 1) ]_vars

\* C4 witness: ordinals u32::MAX and 0 in one datagram are both handed up and
\* the index ends at 1.
C4_Witness ==
    /\ last.op = "raknet_receive"
    /\ last.input.rak_packets = << unrel_seq(0, U32Max), unrel_seq(1, 0) >>
    /\ packets = << PacketFrom(unrel_seq(0, U32Max)), PacketFrom(unrel_seq(1, 0)) >>
    /\ HasBridge("client1")
    /\ Raknet("client1").recv.unrel_seq_index = 1

\* The ordinals of the sub-packets of a received datagram.
Ords(l) ==
    IF l.op = "raknet_receive"
    THEN [i \in 1 .. Len(l.input.rak_packets) |-> l.input.rak_packets[i].rel_data[2]]
    ELSE << >>

\* What became of each of them.
Paths(l) == IF l.op = "raknet_receive" THEN l.paths ELSE << >>

\* The sub-packets of a datagram that were handed up, in arrival order.
RECURSIVE HandedUp(_, _, _)
HandedUp(rak_packets, paths, i) ==
    IF i > Len(rak_packets) THEN << >>
    ELSE (IF paths[i] = "delivered" THEN << PacketFrom(rak_packets[i]) >> ELSE << >>)
         \o HandedUp(rak_packets, paths, i + 1)

\* Sub-packet k of the arrivals comes after the most recent one handed up, j,
\* and its ordinal is the same or up to 2^31 - 1 older.
StaleAfter(ords, paths, j, k) ==
    /\ j < k
    /\ paths[j] = "delivered"
    /\ \A m \in (j + 1) .. (k - 1) : paths[m] # "delivered"
    /\ (ords[j] - ords[k]) % U32Mod < 2 ^ (U32Bits - 1)

\* C5: UnreliableSequenced packets are handed up in arrival order, and a
\* sub-packet arriving after the most recent one handed up, with the same
\* ordinal or an older one within the backward window, is not handed up; of
\* two copies of an ordinal at most the first is.
C5_UnrelSeqStaleDrop ==
    [][ Received("client1") =>
          /\ packets' = HandedUp(last'.input.rak_packets, last'.paths, 1)
          /\ \A k \in (Len(Ords(last)) + 1) .. (Len(Ords(last)) + Len(Ords(last'))) :
               \A j \in 1 .. (k - 1) :
                  StaleAfter(Ords(last) \o Ords(last'), Paths(last) \o Paths(last'), j, k)
                    => (Paths(last) \o Paths(last'))[k] # "delivered"
      ]_vars

\* C5 witness: two copies of an ordinal arrive, the first is handed up and
\* the second is not.
C5_Witness ==
    /\ last.op = "raknet_receive"
    /\ last.input.rak_packets = << unrel_seq(0, 2), unrel_seq(1, 2) >>
    /\ last.paths = << "delivered", "stale" >>
    /\ packets = << PacketFrom(unrel_seq(0, 2)) >>

\* The sub-packets of a datagram that call for an acknowledgement.
IsReliable(rak_packet) == rak_packet.rel_data[1] \in {"Reliable", "ReliableOrdered"}

\* The message numbers a datagram's reliable sub-packets carry.
ReliableNumbers(dgram) ==
    { dgram.rak_packets[i].message_number :
        i \in { n \in 1 .. Len(dgram.rak_packets) : IsReliable(dgram.rak_packets[n]) } }

\* C2: after process_incoming_packets, the message number of every Reliable
\* or ReliableOrdered sub-packet of the datagram is in the pending acks exactly
\* once, whatever became of the sub-packet, and no other number's membership
\* changes, so Unreliable and UnreliableSequenced sub-packets add nothing.
C2_AckedExactlyOnce ==
    [][ Received("client1") =>
          \A m \in U32 :
             IF m \in ReliableNumbers(last'.input)
             THEN RangeList_count(Raknet("client1")'.acks, m) = 1
             ELSE RangeList_count(Raknet("client1")'.acks, m)
                    = RangeList_count(Raknet("client1").acks, m)
      ]_vars

\* The slots of a split id once a chunk has been put into them: those of the
\* queue entry, or fresh ones for the first chunk of the id.
SlotsWith(queue, split, data) ==
    [i \in 1 .. split.count |->
       IF i = split.index + 1 THEN Some(data)
       ELSE IF split.id \in DOMAIN queue THEN queue[split.id][i] ELSE None]

\* The first n slots one after the other.
RECURSIVE Concatenation(_, _)
Concatenation(slots, n) ==
    IF n = 0 THEN << >> ELSE Concatenation(slots, n - 1) \o slots[n][1]

\* The chunk of the datagram a step receives.
Chunk(l) == l.input.rak_packets[1]

\* C3: while a slot of a split id is empty no packet is handed up for it and
\* the chunks stay queued; when the last missing chunk arrives, in whatever
\* order, exactly one packet is handed up, its payload the chunks in index
\* order 0..n-1, and the id leaves split_packet_queue.
C3_SplitReassembly ==
    [][ Received("client1") /\ Chunk(last').split_packet_info # None =>
          IF \E i \in 1 .. Chunk(last').split_packet_info[1].count :
                SlotsWith(Raknet("client1").recv.split_packet_queue,
                          Chunk(last').split_packet_info[1], Chunk(last').data)[i] = None
          THEN /\ packets' = << >>
               /\ Raknet("client1")'.recv.split_packet_queue
                    = MapInsert(Raknet("client1").recv.split_packet_queue,
                                Chunk(last').split_packet_info[1].id,
                                SlotsWith(Raknet("client1").recv.split_packet_queue,
                                          Chunk(last').split_packet_info[1], Chunk(last').data))
          ELSE /\ packets'
                    = << [reliability |-> Chunk(last').rel_data[1],
                          data |-> Concatenation(
                             SlotsWith(Raknet("client1").recv.split_packet_queue,
                                       Chunk(last').split_packet_info[1], Chunk(last').data),
                             Chunk(last').split_packet_info[1].count)] >>
               /\ Raknet("client1")'.recv.split_packet_queue
                    = MapRemove(Raknet("client1").recv.split_packet_queue,
                                Chunk(last').split_packet_info[1].id)
      ]_vars

\* C3 witness: of a packet split in three, chunk 1 arrives last and the whole
\* is handed up in index order.
C3_Witness ==
    /\ last.op = "raknet_receive"
    /\ Chunk(last).split_packet_info = Some(SplitPacketInfo(1, 1, 3))
    /\ packets = << [reliability |-> "Reliable",
                     data |-> << Tag(0), Tag(3), Tag(1), Tag(2) >>] >>
    /\ HasBridge("client1")
    /\ 1 \notin DOMAIN Raknet("client1").recv.split_packet_queue

\* The payload the sub-packet i of a datagram ends up with: its own, or for
\* the chunk that completes a split packet the chunks in index order;
\* nothing for a chunk that completes none.
Payload(queue, rak_packet) ==
    IF rak_packet.split_packet_info = None THEN rak_packet.data
    ELSE IF \E i \in 1 .. rak_packet.split_packet_info[1].count :
               SlotsWith(queue, rak_packet.split_packet_info[1], rak_packet.data)[i] = None
    THEN << >>
    ELSE Concatenation(SlotsWith(queue, rak_packet.split_packet_info[1], rak_packet.data),
                       rak_packet.split_packet_info[1].count)

\* The payload begins with the DisconnectNotification id.
Notifies(data) == Len(data) >= 1 /\ data[1] = 19

\* C6: a sub-packet whose payload (after reassembly) begins with 19 sets
\* closed and is not handed up, whatever its reliability and ordinal: no
\* packet handed up or held for later begins with 19.
C6_DisconnectCloses ==
    [][ Received("client1") =>
          /\ Notifies(Payload(Raknet("client1").recv.split_packet_queue, Chunk(last')))
               => /\ Raknet("client1")'.closed
                  /\ Len(last'.input.rak_packets) = 1 => packets' = << >>
          /\ \A i \in 1 .. Len(last'.input.rak_packets) :
               /\ last'.input.rak_packets[i].split_packet_info = None
               /\ Notifies(last'.input.rak_packets[i].data)
               => Raknet("client1")'.closed
          /\ \A i \in 1 .. Len(packets') : ~Notifies(packets'[i].data)
          /\ \A o \in DOMAIN Raknet("client1")'.recv.out_of_order_packets :
               ~Notifies(Raknet("client1")'.recv.out_of_order_packets[o].data)
      ]_vars

\* C6 witness: a ReliableOrdered sub-packet that is not the next ordinal and
\* carries [19, ..] closes the connection, and nothing is handed up or held.
C6_Witness ==
    /\ last.op = "raknet_receive"
    /\ Chunk(last) = RaknetPacket(0, RD_ReliableOrdered(2), None,
                                  << DisconnectNotification, Tag(0) >>)
    /\ packets = << >>
    /\ HasBridge("client1")
    /\ Raknet("client1").closed
    /\ Raknet("client1").recv.rel_ord_index = 0
    /\ Raknet("client1").recv.out_of_order_packets = << >>

\* C7: a closed connection stays closed for as long as it exists, and a
\* Connection::send on it fails with ConnectionAborted, hands no datagram to
\* the socket and leaves the connection, its pending acks and send counters
\* included, as it was.
C7_ClosedIsFinal ==
    [][ \A a \in Clients :
          /\ HasBridge(a) /\ Raknet(a).closed /\ HasBridge(a)' => Raknet(a)'.closed
          /\ /\ last'.op = "tcpudp_receive"
             /\ last'.source = a
             /\ last'.input.res = "Ok"
             /\ Raknet(a).closed
             => /\ last'.res = "ConnectionAborted"
                /\ sent' = << >>
                /\ \E d \in dropped' : d.address = a /\ d.raknet = Raknet(a)
      ]_vars

\* C7 witness: packets for a closed connection that has acks pending; the
\* send is refused.
C7_Witness ==
    /\ last.op = "tcpudp_receive"
    /\ last.input.res = "Ok"
    /\ last.input.packets # << >>
    /\ last.res = "ConnectionAborted"
    /\ sent = << >>
    /\ \E d \in dropped : d.raknet.closed /\ d.raknet.acks # << >>

\* C8: a bridge whose connection a DisconnectNotification has closed does not
\* outlive the bridge scan of the iteration: the scan leaves no closed bridge
\* behind it, so none is left when the step ends.
C8_ClosedBridgeRemoved ==
    pc.phase = "retain" =>
       \A a \in (DOMAIN Bridges) \ todo : ~Bridges[a].raknet.closed

\* C8 witness: the scan reaches a closed bridge while the NEW side has
\* nothing to receive, and removes it.
C8_Witness ==
    /\ last.op = "tcpudp_receive"
    /\ last.input = [res |-> "Ok", packets |-> << >>]
    /\ last.res = "ConnectionAborted"
    /\ pc.phase = "retain"
    /\ last.source \notin DOMAIN Bridges
    /\ \E d \in dropped : d.address = last.source /\ d.raknet.closed

\* The datagram of a destructor's notification.
IsNotification(dgram) ==
    /\ dgram.packet # None
    /\ dgram.packet[1].rel_data = RD_Unreliable
    /\ dgram.packet[1].data = << 19 >>

\* C9, as stated: the destructor of a closed connection emits a final
\* DisconnectNotification datagram.  The code's send refuses it.
C9_ClosedDropNotifies ==
    \A d \in dropped :
       d.raknet.closed => \E i \in 1 .. Len(d.datagrams) : IsNotification(d.datagrams[i])

\* C9, amended: the destructor of a closed connection attempts the send of
\* the DisconnectNotification, the send fails with ConnectionAborted and no
\* datagram is emitted.
C9_ClosedDropSilent ==
    \A d \in dropped : d.raknet.closed => d.datagrams = << >>

\* C9 witness: a closed bridge has been destroyed.
C9_Witness ==
    /\ last.res = "ConnectionAborted"
    /\ \E d \in dropped : d.raknet.closed /\ d.address = last.source

\* C10: the destructor of a connection that is not closed hands the socket
\* exactly one datagram, for the client's address, whose sub-packet is
\* Unreliable with payload [19] under the connection's next message number.
C10_OpenDropNotifies ==
    \A d \in dropped :
       ~d.raknet.closed =>
          /\ Len(d.datagrams) = 1
          /\ d.datagrams[1].address = d.address
          /\ IsNotification(d.datagrams[1])
          /\ d.datagrams[1].packet[1].message_number = d.raknet.send.message_number
          /\ d.datagrams[1].packet[1].split_packet_info = None

\* C10 witness: the NEW side's receive fails for a bridge that has sent a
\* packet before, and the bridge is torn down.
C10_Witness ==
    /\ last.op = "tcpudp_receive"
    /\ last.input.res = "Err"
    /\ \E d \in dropped :
          /\ d.address = last.source
          /\ ~d.raknet.closed
          /\ d.raknet.send.message_number = 1
          /\ Len(d.datagrams) = 1

\* The item a step inserts into the pending acks of the client.
Inserted(l) == l.input.rak_packets[1].message_number

\* C11: after any sequence of inserts the ranges are non-empty, sorted, and
\* consecutive ranges neither overlap nor touch: r[i].max + 1 < r[i+1].min; an
\* item that closes the gap between two ranges merges them.
C11_RangeListInvariant ==
    HasBridge("client1") =>
       /\ \A i \in 1 .. Len(Raknet("client1").acks) :
             Raknet("client1").acks[i].min <= Raknet("client1").acks[i].max
       /\ \A i \in 1 .. Len(Raknet("client1").acks) - 1 :
             Raknet("client1").acks[i].max + 1 < Raknet("client1").acks[i + 1].min

\* The values of a set in ascending order.
RECURSIVE Ascending(_)
Ascending(set) ==
    IF set = {} THEN << >>
    ELSE LET least == CHOOSE x \in set : \A y \in set : x <= y
         IN << least >> \o Ascending(set \ { least })

\* The values a sequence holds.
Values(seq) == { seq[i] : i \in 1 .. Len(seq) }

\* C12: iterating the list yields each distinct inserted value exactly once,
\* ascending, and nothing else, and len() is their number: with every insert
\* the iteration becomes the ascending sequence of the values it held and
\* the item.
C12_IterationAndLen ==
    [][ Received("client1") =>
          /\ RangeList_into_iter(Raknet("client1")'.acks)
               = Ascending(Values(RangeList_into_iter(Raknet("client1").acks))
                           \cup { Inserted(last') })
          /\ \A overflow_checks \in BOOLEAN :
               RangeList_len(Raknet("client1")'.acks, overflow_checks)
                 = [res |-> "Ok",
                    len |-> Cardinality(Values(RangeList_into_iter(Raknet("client1").acks))
                                        \cup { Inserted(last') })]
      ]_vars

\* C13: the insert of a value the list holds changes nothing.
C13_InsertContainedIsNoOp ==
    [][ Received("client1")
        /\ Inserted(last') \in Values(RangeList_into_iter(Raknet("client1").acks))
        => Raknet("client1")'.acks = Raknet("client1").acks
      ]_vars

\* C14: the compressed-integer codec round-trips: reading what was written
\* for a u16 or a u32 succeeds and returns the value written.
C14_CompressedRoundTrip ==
    unit # None /\ unit.fn = "Compressed::deserialize" =>
       /\ unit.read.res = "Ok"
       /\ unit.read.value = unit.value

\* The sub-packets of the datagrams handed to the socket.
SubPackets(datagrams) ==
    [i \in 1 .. Len(datagrams) |-> datagrams[i].packet[1]]

\* A step in which the relay sends to `address` what the TcpUdp side received.
Relayed(address) == last'.op = "tcpudp_receive" /\ last'.source = address

\* C15: a new connection's first sub-packet has message number 0, and the
\* sub-packets of every send (the chunks of a split packet each counted)
\* carry the numbers that follow the last one sent before, modulo 2^32.
C15_MessageNumbers ==
    [][ /\ last'.op = "open" /\ last'.res = "Ok"
           => Raknet("client1")'.send.message_number = 0
        /\ Relayed("client1")
           => LET Consecutive(k, out) ==
                      /\ \A i \in 1 .. Len(out) :
                            out[i].message_number = (k + i - 1) % U32Mod
                      /\ Raknet("client1")'.send.message_number = (k + Len(out)) % U32Mod
              IN Consecutive(Raknet("client1").send.message_number, SubPackets(sent')) ]_vars

\* C15 witness: the two chunks of a split packet go out under the numbers
\* u32::MAX and 0.
C15_Witness ==
    /\ last.op = "tcpudp_receive"
    /\ Len(sent) = 2
    /\ sent[1].packet[1].split_packet_info # None
    /\ sent[1].packet[1].message_number = U32Max
    /\ sent[2].packet[1].message_number = 0

\* A sub-packet that is the last one of its packet: not split, or the chunk
\* of the highest index.
EndsPacket(p) ==
    \/ p.split_packet_info = None
    \/ p.split_packet_info[1].index + 1 = p.split_packet_info[1].count

\* The packet (by its place in the batch) the i-th sub-packet belongs to.
PacketOf(out, i) == 1 + Cardinality({ j \in 1 .. i - 1 : EndsPacket(out[j]) })

\* How many packets of reliability `rel` come before the j-th.
KindBefore(in, j, rel) == Cardinality({ i \in 1 .. j - 1 : in[i].reliability = rel })

\* What the sub-packets of the j-th packet are to carry when the counters
\* stood at `us` and `ro` before the batch.
Ordinal(in, j, us, ro) ==
    IF in[j].reliability = "UnreliableSequenced"
    THEN << "UnreliableSequenced", (us + KindBefore(in, j, "UnreliableSequenced")) % U32Mod >>
    ELSE IF in[j].reliability = "ReliableOrdered"
    THEN << "ReliableOrdered", (ro + KindBefore(in, j, "ReliableOrdered")) % U32Mod >>
    ELSE << in[j].reliability >>

\* C16: both ordinals of a new connection start at 0; every sub-packet of an
\* UnreliableSequenced (ReliableOrdered) packet carries unrel_seq_index
\* (rel_ord_index) as it stood plus the number of packets of that kind before
\* it in the batch, modulo 2^32, the chunks of a split packet all the same
\* one; Unreliable and Reliable sub-packets carry none; and each counter
\* advances by the number of packets of its kind.
C16_Ordinals ==
    [][ /\ last'.op = "open" /\ last'.res = "Ok"
           => /\ Raknet("client1")'.send.unrel_seq_index = 0
              /\ Raknet("client1")'.send.rel_ord_index = 0
        /\ Relayed("client1")
           => LET Numbered(send, in, out) ==
                      /\ Len(out) >= 1
                      /\ PacketOf(out, Len(out)) = Len(in)
                      /\ EndsPacket(out[Len(out)])
                      /\ \A i \in 1 .. Len(out) :
                            out[i].rel_data
                              = Ordinal(in, PacketOf(out, i), send.unrel_seq_index,
                                        send.rel_ord_index)
                      /\ Raknet("client1")'.send.unrel_seq_index
                           = (send.unrel_seq_index
                              + KindBefore(in, Len(in) + 1, "UnreliableSequenced")) % U32Mod
                      /\ Raknet("client1")'.send.rel_ord_index
                           = (send.rel_ord_index
                              + KindBefore(in, Len(in) + 1, "ReliableOrdered")) % U32Mod
              IN Numbered(Raknet("client1").send, last'.input.packets, SubPackets(sent')) ]_vars

\* C16 witness: a split ReliableOrdered packet whose two chunks carry the
\* ordinal u32::MAX, followed by an UnreliableSequenced packet with ordinal 1;
\* rel_ord_index has wrapped to 0.
C16_Witness ==
    /\ last.op = "tcpudp_receive"
    /\ Len(sent) = 3
    /\ sent[1].packet[1].split_packet_info # None
    /\ sent[1].packet[1].rel_data = RD_ReliableOrdered(U32Max)
    /\ sent[2].packet[1].rel_data = RD_ReliableOrdered(U32Max)
    /\ sent[3].packet[1].rel_data = RD_UnreliableSequenced(1)
    /\ Raknet("client1").send.rel_ord_index = 0
    /\ Raknet("client1").send.unrel_seq_index = 2

\* The header length H(rel, split) in bytes: the bits of the header divided
\* by 8, plus one byte.
H(rel, split) ==
    (32 + 3 + (IF rel \in { "UnreliableSequenced", "ReliableOrdered" } THEN 37 ELSE 0) + 1
     + (IF split THEN 16 + 32 + 32 + 16 ELSE 0)) \div 8 + 1

\* Whether a packet is to be split.
ToSplit(p) == H(p.reliability, FALSE) + Len(p.data) > MAX_PACKET_SIZE

\* ceil(a / b)
CeilDiv(a, b) == (a + b - 1) \div b

\* The number of sub-packets a packet is to yield.
SubCount(p) ==
    IF ToSplit(p) THEN CeilDiv(Len(p.data), MAX_PACKET_SIZE - H(p.reliability, TRUE)) ELSE 1

\* The number of sub-packets the packets before the j-th are to yield.
RECURSIVE SubCountBefore(_, _)
SubCountBefore(in, j) ==
    IF j <= 1 THEN 0 ELSE SubCountBefore(in, j - 1) + SubCount(in[j - 1])

\* How many packets before the j-th are to be split.
SplitBefore(in, j) == Cardinality({ i \in 1 .. j - 1 : ToSplit(in[i]) })

\* The payloads of the first n of these sub-packets one after the other.
RECURSIVE Payloads(_, _)
Payloads(group, n) ==
    IF n = 0 THEN << >> ELSE Payloads(group, n - 1) \o group[n].data

\* C17: a packet is split iff H(rel, false) + |data| > MAX_PACKET_SIZE; a
\* split packet yields ceil(|data| / (MAX_PACKET_SIZE - H(rel, true))) >= 2
\* sub-packets with one split id, the split_packet_index counter as it stood
\* plus the number of split packets before it in the batch modulo 2^16, the
\* same count, the indices 0..count-1 in order, and payloads that
\* concatenate to the data; any other packet yields one sub-packet without
\* split_packet_info and with the data; the counter advances by the number
\* of split packets.
C17_Splitting ==
    [][ Relayed("client1")
        => LET Group(in, out, j) ==
                   SubSeq(out, SubCountBefore(in, j) + 1, SubCountBefore(in, j + 1))
               Whole(p, group) ==
                   /\ Len(group) = 1
                   /\ group[1].split_packet_info = None
                   /\ group[1].data = p.data
               Split(p, group, id) ==
                   /\ Len(group) = SubCount(p)
                   /\ Len(group) >= 2
                   /\ \A k \in 1 .. Len(group) :
                         group[k].split_packet_info
                           = Some([id |-> id, index |-> k - 1, count |-> SubCount(p)])
                   /\ Payloads(group, Len(group)) = p.data
               Holds(id, in, out) ==
                   /\ Len(out) = SubCountBefore(in, Len(in) + 1)
                   /\ \A j \in 1 .. Len(in) :
                         IF ToSplit(in[j])
                         THEN Split(in[j], Group(in, out, j),
                                    (id + SplitBefore(in, j)) % U16Mod)
                         ELSE Whole(in[j], Group(in, out, j))
                   /\ Raknet("client1")'.send.split_packet_index
                        = (id + SplitBefore(in, Len(in) + 1)) % U16Mod
           IN Holds(Raknet("client1").send.split_packet_index, last'.input.packets,
                    SubPackets(sent')) ]_vars

\* C17 witness: a ReliableOrdered packet of two full chunks and a byte has
\* gone out in three chunks under the split id u16::MAX, after a short
\* packet sent whole, and split_packet_index has wrapped to 0.
C17_Witness ==
    /\ last.op = "tcpudp_receive"
    /\ Len(sent) = 4
    /\ sent[1].packet[1].split_packet_info = None
    /\ sent[2].packet[1].split_packet_info = Some([id |-> U16Mod - 1, index |-> 0, count |-> 3])
    /\ sent[4].packet[1].split_packet_info = Some([id |-> U16Mod - 1, index |-> 2, count |-> 3])
    /\ Len(sent[4].packet[1].data) = 1
    /\ Raknet("client1").send.split_packet_index = 0

\* The place in the stream of the last byte of the k-th frame.
RECURSIVE FrameEnd(_, _)
FrameEnd(frames, k) ==
    IF k = 0 THEN 0 ELSE FrameEnd(frames, k - 1) + 4 + Len(frames[k])

\* How many frames have their last byte among the first `pos` of the stream.
FramesWithin(frames, pos) ==
    Cardinality({ k \in 1 .. Len(frames) : FrameEnd(frames, k) <= pos })

\* C18: however the stream of frames is cut into writes, receive calls and
\* reads, a receive call returns the bodies of exactly the frames whose last
\* byte arrived since the call before, in order, each as a ReliableOrdered
\* packet; so the calls together return every frame body once, in order, and
\* none before its last byte.
C18_TcpFraming ==
    [][ unit'.fn = "Connection::receive" /\ unit'.res = "Ok"
        => LET Returned(before, after) ==
                   unit'.packets
                     = [i \in 1 .. (after - before) |->
                          [reliability |-> "ReliableOrdered",
                           data |-> unit.frames[before + i]]]
           IN Returned(FramesWithin(unit.frames, unit.written - Len(unit.wire)),
                       FramesWithin(unit.frames, unit.written)) ]_vars

\* C18 witness: of two frames the second alone is returned by a call that
\* leaves nothing unread; the first came with an earlier call.
C18_Witness ==
    /\ unit # None
    /\ unit.fn = "Connection::receive"
    /\ unit.frames = << << 7 >>, << 8, 9 >> >>
    /\ unit.written = 11
    /\ unit.packets = << [reliability |-> "ReliableOrdered", data |-> << 8, 9 >>] >>

\* A datagram that holds what its tag announces.
WellFormed(d) == Len(d) >= 1 /\ (d[1] = 0 \/ (d[1] = 1 /\ Len(d) >= 5))

\* The sequence number of a datagram with tag 1.
SeqOf(d) == d[2] + d[3] * 256 + d[4] * 65536 + d[5] * 16777216

\* What the datagrams from the i-th on are to yield when a sequenced one is
\* accepted iff its number is less than `window` ahead of seq_num_recv.
RECURSIVE Sequenced(_, _, _, _)
Sequenced(seq_num_recv, datagrams, i, window) ==
    LET d == datagrams[i]
        Push(packet, rest) ==
            [seq_num_recv |-> rest.seq_num_recv, packets |-> << packet >> \o rest.packets]
    IN IF i > Len(datagrams)
       THEN [seq_num_recv |-> seq_num_recv, packets |-> << >>]
       ELSE IF d[1] = 0
       THEN Push([reliability |-> "Unreliable", data |-> SubSeq(d, 2, Len(d))],
                 Sequenced(seq_num_recv, datagrams, i + 1, window))
       ELSE IF (SeqOf(d) - seq_num_recv + U32Mod) % U32Mod < window
       THEN Push([reliability |-> "UnreliableSequenced", data |-> SubSeq(d, 6, Len(d))],
                 Sequenced((SeqOf(d) + 1) % U32Mod, datagrams, i + 1, window))
       ELSE Sequenced(seq_num_recv, datagrams, i + 1, window)

\* A call of receive that read datagrams which hold what their tags announce.
ReceivedUdp ==
    /\ unit'.fn = "Connection::receive"
    /\ unit'.res \in { "Ok", "Err" }
    /\ \A i \in 1 .. Len(unit'.datagrams) : WellFormed(unit'.datagrams[i])

\* Whether the call did what Sequenced says for this window.
UdpWindow(window) ==
    LET Did(expected) ==
            /\ unit'.conn.seq_num_recv = expected.seq_num_recv
            /\ unit'.res = "Ok" => unit'.packets = expected.packets
    IN Did(Sequenced(unit.conn.seq_num_recv, unit'.datagrams, 1, window))

LittleEndian(n) == [k \in 1 .. 4 |-> (n \div (256 ^ (k - 1))) % 256]

\* What the j-th packet of a batch is to become when seq_num_send stood at
\* `seq` before the batch.
Mapped(batch, j, seq) ==
    IF batch[j].reliability = "Unreliable"
    THEN [via |-> "udp", bytes |-> << 0 >> \o batch[j].data]
    ELSE IF batch[j].reliability = "UnreliableSequenced"
    THEN [via |-> "udp",
          bytes |-> << 1 >>
                    \o LittleEndian((seq + KindBefore(batch, j, "UnreliableSequenced")) % U32Mod)
                    \o batch[j].data]
    ELSE [via |-> "tcp", bytes |-> LittleEndian(Len(batch[j].data)) \o batch[j].data]

Dispatched == last.op \in { "open", "ignored" } /\ pc.phase # "exited"

\* Length at most 2 and first byte 9.
IsOpenRequest(data) ==
    Len(data) >= 1 /\ Len(data) <= 2 /\ data[1] = OpenConnectionRequest

\* C21, as stated: a datagram from an address with no bridge whose length is
\* at most 2 and whose first byte is 9 is answered with exactly one two-byte
\* reply, [10,0] and a new bridge when the connect succeeds, [18,0] and no
\* bridge when it fails; any other datagram from such an address gets no
\* reply and no bridge.  The code tests BUF[0] of a datagram of length 0.
C21_UnknownDispatch ==
    Dispatched =>
       IF IsOpenRequest(last.input)
       THEN \/ /\ last.res = "Ok"
               /\ sent = << RawDatagram(last.source, << OpenConnectionReply, 0 >>) >>
               /\ HasBridge(last.source)
            \/ /\ last.res # "Ok"
               /\ sent = << RawDatagram(last.source, << NoFreeIncomingConnections, 0 >>) >>
               /\ ~HasBridge(last.source)
       ELSE sent = << >> /\ ~HasBridge(last.source)


\* The step handled a known client's datagram, or ran a bridge's NEW
\* receive-and-forward, and that returned an error.
BridgeFailed ==
    /\ last'.op \in { "raknet_receive", "tcpudp_receive" }
    /\ last'.res \notin { "Ok", "panic" }

\* C22: when the handling of a known client's datagram or a bridge's NEW
\* receive-and-forward returns an error, that client's bridge and no other
\* is removed: the other bridges of the relay are as they were, the relay
\* and the registry are unchanged, and the loop goes on.
C22_TeardownLocal ==
    [][BridgeFailed =>
          /\ Len(shims') = Len(shims)
          /\ \A k \in DOMAIN shims :
                /\ shims'[k].connect_addr = shims[k].connect_addr
                /\ shims'[k].local_addr = shims[k].local_addr
                /\ DOMAIN shims'[k].bridges
                      = (DOMAIN shims[k].bridges) \ (IF k = pc.shim THEN { last'.source } ELSE {})
                /\ \A a \in DOMAIN shims'[k].bridges :
                      shims'[k].bridges[a] = shims[k].bridges[a]
          /\ last'.source \in DOMAIN shims[pc.shim].bridges
          /\ addrs' = addrs
          /\ pc'.shim = pc.shim /\ pc'.phase = pc.phase]_vars

\* C22 witness: a bridge's NEW receive-and-forward failed and the bridge is
\* gone, while the bridge of the other client is still there.
C22_Witness ==
    /\ last.op = "tcpudp_receive"
    /\ last.res = "Err"
    /\ pc.phase = "retain"
    /\ last.source \notin DOMAIN Bridges
    /\ \E other \in DOMAIN Bridges : other # last.source /\ ~Bridges[other].raknet.closed


\* C23, as stated: in every state of the loop the relay list holds at most
\* one relay for any upstream address, also when several redirects or login
\* responses that name the same unknown upstream are scanned in one
\* iteration.  The scan looks the upstream up in `addrs`, which main changes
\* only after every shim was stepped.
C23_RelaysDeduplicated ==
    \A i, j \in DOMAIN shims :
       shims[i].connect_addr = shims[j].connect_addr => i = j


\* A login response that carries an address, and a redirect.
IsLoginResponse(data) ==
    Len(data) > 413 /\ data[1] = 83 /\ data[2] = 5 /\ data[4] = 0 /\ data[9] = 1

IsRedirect(data) == Len(data) > 8 /\ data[1] = 83 /\ data[2] = 5 /\ data[4] = 14

\* Where the host field of such a packet starts.
HostAt(data) == IF IsRedirect(data) THEN 8 ELSE 345

\* The text in a host field: its bytes up to the first zero.
RECURSIVE TextOf(_)
TextOf(field) ==
    IF field = << >> \/ field[1] = 0 THEN << >> ELSE << field[1] >> \o TextOf(Tail(field))

\* The upstream a packet names, "localhost" being 127.0.0.1, and the port in
\* its port field.
HostIn(data) == TextOf(SubSeq(data, HostAt(data) + 1, HostAt(data) + 33))

\* Where its port field starts.
PortAt(data) == IF IsRedirect(data) THEN 41 ELSE 411

PortIn(data) == data[PortAt(data) + 1] + 256 * data[PortAt(data) + 2]

UpstreamIn(data) ==
    << IF HostIn(data) = Localhost THEN Loopback ELSE HostIn(data), PortIn(data) >>

\* The datagrams of the last step that went out: all of those handed to
\* send_to, but for the last one when that call returned the error.
Delivered == IF last.res = "Ok" THEN Len(sent) ELSE Len(sent) - 1

\* The step ran a bridge's receive-and-forward, and datagram i of those that
\* went out to the client carries packet i of the batch, a login response
\* or a redirect.
SentRewritten(i) ==
    /\ last.op = "tcpudp_receive"
    /\ i \in 1 .. Delivered
    /\ i \in DOMAIN last.input.packets
    /\ IsLoginResponse(last.input.packets[i].data) \/ IsRedirect(last.input.packets[i].data)

\* A relay bound to local port P with upstream U is in the relay list and
\* `addrs` maps U to it, now or once the commands collected are applied.
RelayFor(P, U) ==
    LET pending == { j \in DOMAIN cmds : cmds[j].connect_addr = U }
        Latest(j) == \A k \in pending : k <= j
    IN IF pending # {}
       THEN \E j \in pending : Latest(j) /\ cmds[j].shim.local_addr = << Loopback, P >>
       ELSE /\ U \in DOMAIN addrs
            /\ addrs[U] = << Loopback, P >>
            /\ \E k \in DOMAIN shims :
                  shims[k].local_addr = << Loopback, P >> /\ shims[k].connect_addr = U

\* C24, as stated: whenever a client is sent a login response or redirect
\* whose port was rewritten to a local port P for upstream U, the relay list
\* holds a relay bound to P with upstream U and `addrs` maps U to it by the
\* end of the iteration (it is there already, or among the commands main
\* applies then), also when the send of the same batch fails after the relay
\* was started.  The code drops the commands, and the relay, when the send
\* fails.
C24_RewrittenPortHasRelay ==
    \A i \in DOMAIN sent :
       SentRewritten(i) =>
          RelayFor(PortIn(sent[i].packet[1].data), UpstreamIn(last.input.packets[i].data))


\* Packet i of the batch the last step's receive-and-forward scanned, and
\* what the datagram handed to send_to for it carries.
Scanned(i) == last.input.packets[i]

Forwarded(i) == sent[i].packet[1]

\* A relay for upstream U with local port P was there or was started.
RelayStarted(P, U) ==
    \/ \E k \in DOMAIN shims :
          shims[k].connect_addr = U /\ shims[k].local_addr = << Loopback, P >>
    \/ \E j \in DOMAIN cmds :
          cmds[j].connect_addr = U /\ cmds[j].shim.local_addr = << Loopback, P >>

\* The bytes of `out` are those of `data` but for the host and port fields,
\* the host field holds "127.0.0.1" and zeros, the port field the port P.
AddressRewritten(data, out, P) ==
    /\ Len(out) = Len(data)
    /\ \A k \in 1 .. Len(data) :
          (k <= HostAt(data) \/ k > HostAt(data) + 33)
          /\ (k <= PortAt(data) \/ k > PortAt(data) + 2)
          => out[k] = data[k]
    /\ SubSeq(out, HostAt(data) + 1, HostAt(data) + 33) = Loopback \o Zeros(33 - Len(Loopback))
    /\ PortIn(out) = P

\* C25: of the packets a bridge's receive-and-forward sends on, a login
\* response (83, 5, data[3] = 0, data[8] = 1, more than 413 bytes) and a
\* redirect (83, 5, data[3] = 14) keep their length and every byte outside
\* the 33-byte host field and the 2-byte port field, the host field becomes
\* "127.0.0.1" padded with zeros and the port that of the local relay for
\* the upstream the packet named; every other packet is sent on byte for
\* byte; and the packets sent on are those received, in their order and with
\* their reliability.
C25_ScanRewritesAddressOnly ==
    last.op = "tcpudp_receive" /\ sent # << >> =>
       /\ Len(sent) <= Len(last.input.packets)
       /\ last.res = "Ok" => Len(sent) = Len(last.input.packets)
       /\ \A i \in DOMAIN sent :
             /\ Forwarded(i).rel_data[1] = Scanned(i).reliability
             /\ IF IsLoginResponse(Scanned(i).data) \/ IsRedirect(Scanned(i).data)
                THEN /\ AddressRewritten(Scanned(i).data, Forwarded(i).data,
                                         PortIn(Forwarded(i).data))
                     /\ last.res = "Ok" =>
                           RelayStarted(PortIn(Forwarded(i).data), UpstreamIn(Scanned(i).data))
                ELSE Forwarded(i).data = Scanned(i).data

\* C25 witness: a login response that named the world server by address went
\* out with the host and port of a relay started for it, behind or before a
\* redirect or alone.
C25_Witness ==
    /\ last.op = "tcpudp_receive"
    /\ last.res = "Ok"
    /\ \E i \in DOMAIN sent :
          /\ IsLoginResponse(Scanned(i).data)
          /\ UpstreamIn(Scanned(i).data) = << WorldHost, 2001 >>
          /\ HostIn(Forwarded(i).data) = Loopback
          /\ PortIn(Forwarded(i).data) \in { 2101, 2102 }


\* A datagram that cannot be decoded: it ends inside its header, a
\* sub-packet has an unknown reliability id or a non-zero ordering channel,
\* or a sub-packet is a part of a split packet of one part.
Undecodable(dgram) ==
    \/ dgram.header # "ok"
    \/ dgram.parse = "panic"
    \/ \E i \in DOMAIN dgram.rak_packets :
          /\ dgram.rak_packets[i].split_packet_info # None
          /\ dgram.rak_packets[i].split_packet_info[1].count <= 1

\* C26, as stated: a datagram from a known client that cannot be decoded is
\* fatal for that datagram only: the client's bridge is torn down, and the
\* loop goes on with the other bridges and relays.  The code panics on an
\* unknown reliability id, a non-zero ordering channel and a split count of
\* 1, and the panic ends the process.
C26_UndecodableIsLocal ==
    [][(last'.op = "raknet_receive" /\ Undecodable(last'.input)) =>
          /\ pc'.phase # "exited"
          /\ Len(shims') = Len(shims)
          /\ DOMAIN shims'[pc.shim].bridges = (DOMAIN shims[pc.shim].bridges) \ { last'.source }
          /\ \A a \in DOMAIN shims'[pc.shim].bridges :
                shims'[pc.shim].bridges[a] = shims[pc.shim].bridges[a]]_vars


\* The step ran the receive-and-forward of a bridge whose UDP socket held a
\* datagram with a tag that is neither 0 nor 1.
UnknownTagReceived ==
    /\ last'.op = "tcpudp_receive"
    /\ "datagrams" \in DOMAIN last'.input
    /\ \E i \in DOMAIN last'.input.datagrams :
          /\ Len(last'.input.datagrams[i]) >= 1
          /\ last'.input.datagrams[i][1] \notin { 0, 1 }

\* C27, as stated: a NEW-side UDP datagram whose tag byte is neither 0 nor 1
\* is a decode error for that datagram: the bridge it came to is dropped and
\* the loop goes on with the other bridges and relays.  receive_udp panics
\* on such a tag, and the panic ends the process.
C27_UnknownTagIsLocal ==
    [][UnknownTagReceived =>
          /\ pc'.phase # "exited"
          /\ Len(shims') = Len(shims)
          /\ DOMAIN shims'[pc.shim].bridges = (DOMAIN shims[pc.shim].bridges) \ { last'.source }
          /\ \A a \in DOMAIN shims'[pc.shim].bridges :
                shims'[pc.shim].bridges[a] = shims[pc.shim].bridges[a]]_vars


\* What Shim::raknet_receive does with a datagram from an address with no
\* bridge when recv_from writes it into a buffer of its own, all zero
\* before: "open" when it goes on to create_bridge, "ignored" otherwise.
FreshDispatch(data) ==
    IF Len(data) <= 2 /\ BUF_at(BUF_recv(<< >>, data), 0) = OpenConnectionRequest
    THEN "open" ELSE "ignored"

\* C28, as stated: the handling of a received datagram depends on its own
\* bytes and length and on the state of the connections only, never on bytes
\* an earlier datagram left in the buffer: the program does what one with a
\* fresh buffer for each call would do.  Here for the datagrams of addresses
\* with no bridge; the code reads BUF[0] of a datagram of length 0.
C28_BufferNotObservable ==
    last.op \in { "open", "ignored" } => last.op = FreshDispatch(last.input)


\* unrel_seq_index when sub-packet k of a datagram of UnreliableSequenced
\* sub-packets is looked at: the index before the datagram, or one past the
\* ordinal of the last sub-packet handed up before k.
RECURSIVE IndexBefore(_, _, _, _)
IndexBefore(index, rak_packets, paths, k) ==
    IF k = 1 THEN index
    ELSE IF paths[k - 1] = "delivered"
    THEN wrapping_add(rak_packets[k - 1].rel_data[2], 1)
    ELSE IndexBefore(index, rak_packets, paths, k - 1)

\* Sub-packet k of the datagram of this step is UnreliableSequenced with
\* ordinal 0 and meets unrel_seq_index = u32::MAX.
ZeroAtMax(k) ==
    /\ Received("client1")
    /\ k \in DOMAIN last'.input.rak_packets
    /\ last'.input.rak_packets[k].rel_data = RD_UnreliableSequenced(0)
    /\ IndexBefore(Raknet("client1").recv.unrel_seq_index, last'.input.rak_packets,
                   last'.paths, k) = U32Max

\* C29, as stated: with unrel_seq_index at u32::MAX an UnreliableSequenced
\* sub-packet with ordinal 0 is dropped as stale.  For the code 0 is the
\* ordinal that follows u32::MAX: the difference is 1.
C29_ZeroAtMaxDropped ==
    [][\A k \in 1 .. 2 : ZeroAtMax(k) => last'.paths[k] = "stale"]_vars

\* C29, amended: with unrel_seq_index at u32::MAX an UnreliableSequenced
\* sub-packet with ordinal 0 is accepted: it is handed up and unrel_seq_index
\* becomes 1.
C29_ZeroAtMaxDelivered ==
    [][\A k \in 1 .. 2 :
          ZeroAtMax(k) =>
             /\ last'.paths[k] = "delivered"
             /\ packets'[Len(packets')] = PacketFrom(last'.input.rak_packets[k])
                   \/ k < Len(last'.input.rak_packets)
             /\ k = Len(last'.input.rak_packets)
                   => Raknet("client1")'.recv.unrel_seq_index = 1]_vars

\* C29 witness: the ordinal u32::MAX - 1 moves the index to u32::MAX, the
\* ordinal 0 behind it in the datagram is handed up and the index is 1.
C29_Witness ==
    /\ last.op = "raknet_receive"
    /\ last.input.rak_packets = << unrel_seq(0, U32Max - 1), unrel_seq(1, 0) >>
    /\ last.paths = << "delivered", "delivered" >>
    /\ packets = << PacketFrom(unrel_seq(0, U32Max - 1)), PacketFrom(unrel_seq(1, 0)) >>
    /\ HasBridge("client1")
    /\ Raknet("client1").recv.unrel_seq_index = 1


\* The sub-packets before position k that were queued as too early.
EarlyBefore(rak_packets, paths, k) ==
    { j \in 1 .. k - 1 : paths[j] = "early" }

\* The packet held under ordinal o when sub-packet k is looked at: the one a
\* sub-packet of this datagram queued last, or the one held before the call.
HeldAt(out_of_order, rak_packets, paths, k, o) ==
    LET js == { j \in EarlyBefore(rak_packets, paths, k) : rak_packets[j].rel_data[2] = o }
    IN IF js = {} THEN out_of_order[o]
       ELSE PacketFrom(rak_packets[CHOOSE j \in js : \A x \in js : x <= j])

\* The ordinals held when sub-packet k is looked at.
HeldOrds(out_of_order, rak_packets, paths, k) ==
    DOMAIN out_of_order
    \cup { rak_packets[j].rel_data[2] : j \in EarlyBefore(rak_packets, paths, k) }

\* How many ordinals from o on, without a gap, are among those held.
RECURSIVE RunFrom(_, _)
RunFrom(held, o) ==
    IF o \in held THEN 1 + RunFrom(held \ { o }, wrapping_add(o, 1)) ELSE 0

\* Sub-packet k is the one ReliableOrdered sub-packet of the datagram that
\* met its ordinal at rel_ord_index.
InOrderAt(k) ==
    /\ k \in DOMAIN last'.input.rak_packets
    /\ last'.input.rak_packets[k].rel_data
         = RD_ReliableOrdered(Raknet("client1").recv.rel_ord_index)
    /\ \A j \in DOMAIN last'.paths : last'.paths[j] = "delivered" <=> j = k

\* Every held ordinal is ahead of rel_ord_index, inside the window.
HeldAhead(recv) ==
    \A o \in DOMAIN recv.out_of_order_packets :
       /\ o # recv.rel_ord_index
       /\ wrapping_sub(o, recv.rel_ord_index) < HalfWindow

\* C30: a ReliableOrdered sub-packet whose ordinal is rel_ord_index is handed
\* up and, in the same call, so is every held packet of the ordinals that follow
\* without a gap, in order; rel_ord_index ends behind the last of them, they
\* leave out_of_order_packets and the packets behind a gap stay held.  After
\* every call no held ordinal equals rel_ord_index and every held ordinal is
\* less than u32::MAX / 2 ahead of it.
C30_HoldAndDrain ==
    [][ Received("client1") /\ HasBridge("client1")' =>
          /\ HeldAhead(Raknet("client1")'.recv)
          /\ \A k \in 1 .. 2 :
               InOrderAt(k) =>
                  LET recv == Raknet("client1").recv
                      input == last'.input.rak_packets
                      held == HeldOrds(recv.out_of_order_packets, input, last'.paths, k)
                      n == RunFrom(held, wrapping_add(recv.rel_ord_index, 1))
                      run == { wrapping_add(recv.rel_ord_index, j) : j \in 1 .. n }
                  IN /\ packets' = << PacketFrom(input[k]) >> \o
                                   [j \in 1 .. n |->
                                      HeldAt(recv.out_of_order_packets, input, last'.paths, k,
                                             wrapping_add(recv.rel_ord_index, j))]
                     /\ Raknet("client1")'.recv.rel_ord_index
                          = wrapping_add(recv.rel_ord_index, n + 1)
                     /\ \A o \in run : o \notin DOMAIN Raknet("client1")'.recv.out_of_order_packets
                     /\ \A o \in held \ run :
                          /\ o \in DOMAIN Raknet("client1")'.recv.out_of_order_packets
                          /\ Raknet("client1")'.recv.out_of_order_packets[o]
                               = HeldAt(recv.out_of_order_packets, input, last'.paths, k, o)
      ]_vars

\* C30 witness: ordinals 1 and 2 were held; ordinal 0 arrives and the call
\* hands up 0, 1 and 2, leaving nothing held and rel_ord_index at 3.
C30_Witness ==
    /\ last.op = "raknet_receive"
    /\ last.input.rak_packets = << rel_ord(0, 0) >>
    /\ packets = << PacketFrom(rel_ord(0, 0)), PacketFrom(rel_ord(0, 1)),
                    PacketFrom(rel_ord(0, 2)) >>
    /\ HasBridge("client1")
    /\ Raknet("client1").recv.rel_ord_index = 3
    /\ Raknet("client1").recv.out_of_order_packets = << >>

\* What a datagram of one ReliableOrdered sub-packet, no disconnect
\* notification, whose ordinal is not rel_ord_index does when the ordinals
\* less than `window` ahead are the early ones.
HoldStep(window) ==
    /\ Received("client1")
    /\ HasBridge("client1")'
    /\ Len(last'.input.rak_packets) = 1
    /\ last'.input.rak_packets[1].rel_data[1] = "ReliableOrdered"
    /\ last'.input.rak_packets[1].rel_data[2] # Raknet("client1").recv.rel_ord_index
    /\ ~Notifies(last'.input.rak_packets[1].data)
    => LET recv == Raknet("client1").recv
           ord == last'.input.rak_packets[1].rel_data[2]
       IN /\ packets' = << >>
          /\ Raknet("client1")'.recv.rel_ord_index = recv.rel_ord_index
          /\ IF (ord - recv.rel_ord_index + U32Mod) % U32Mod < window
             THEN /\ last'.paths = << "early" >>
                  /\ Raknet("client1")'.recv.out_of_order_packets
                       = MapInsert(recv.out_of_order_packets, ord,
                                   PacketFrom(last'.input.rak_packets[1]))
             ELSE /\ last'.paths = << "duplicate" >>
                  /\ Raknet("client1")'.recv.out_of_order_packets
                       = recv.out_of_order_packets

\* C31, as stated: a ReliableOrdered(ord) sub-packet with ord # rel_ord_index
\* is held iff (ord - rel_ord_index) mod 2^32 < 2^31.  The code drops the one
\* whose difference is 2^31 - 1.
C31_HoldWindowHalf == [][ HoldStep(2 ^ (U32Bits - 1)) ]_vars

\* C31, amended: a ReliableOrdered(ord) sub-packet with ord # rel_ord_index is
\* put into out_of_order_packets[ord] iff (ord - rel_ord_index) mod 2^32
\* < 2^31 - 1 (u32::MAX / 2); otherwise it is dropped and out_of_order_packets
\* stays; rel_ord_index stays in both cases and nothing is handed up.
C31_HoldWindowMaxHalf == [][ HoldStep(2 ^ (U32Bits - 1) - 1) ]_vars

\* C31 witness: with rel_ord_index past the wrap point an ordinal 2^31 - 1
\* ahead has been dropped while one 2^31 - 2 ahead is held.
C31_Witness ==
    /\ last.op = "raknet_receive"
    /\ HasBridge("client1")
    /\ Len(last.input.rak_packets) = 1
    /\ last.input.rak_packets[1].rel_data
         = RD_ReliableOrdered(wrapping_add(Raknet("client1").recv.rel_ord_index, HalfWindow))
    /\ ~Notifies(last.input.rak_packets[1].data)
    /\ last.paths = << "duplicate" >>
    /\ Raknet("client1").recv.rel_ord_index = U32Max
    /\ DOMAIN Raknet("client1").recv.out_of_order_packets
         = { wrapping_add(U32Max, HalfWindow - 1) }

\* The number of sub-packets the packets from j on are to yield.
RECURSIVE SubCounts(_, _)
SubCounts(in, j) == IF j > Len(in) THEN 0 ELSE SubCount(in[j]) + SubCounts(in, j + 1)

\* The connection the step sent on, as the send left it: the bridge's, or
\* that of the bridge dropped because a send_to failed.
SentOn(address) ==
    IF dropped' = {} THEN Raknet(address)'
    ELSE (CHOOSE d \in dropped' : d.address = address).raknet

\* C32: a send that yields k >= 1 sub-packets hands the socket one datagram
\* per sub-packet, in their order, each with the has_remote_system_time bit 0
\* (all k of them unless a send_to fails and ends the call); the first carries
\* the ack header with the clock and the whole list of pending acks if there
\* are any, no later one carries acks, and the list is empty after the call.
C32_AcksOnFirstDatagram ==
    [][ /\ Relayed("client1")
        /\ ~Raknet("client1").closed
        /\ SubCounts(last'.input.packets, 1) >= 1
        => LET conn == Raknet("client1")
               k == SubCounts(last'.input.packets, 1)
           IN /\ Len(sent') >= 1
              /\ Len(sent') <= k
              /\ last'.res = "Ok" => Len(sent') = k
              /\ \A i \in 1 .. Len(sent') :
                    /\ sent'[i].raw = None
                    /\ sent'[i].packet # None
                    /\ sent'[i].has_remote_system_time = Some(FALSE)
                    /\ i > 1 => sent'[i].ack_header = None
              /\ sent'[1].ack_header
                   = IF conn.acks = RangeList_new THEN None
                     ELSE Some([remote_system_time |-> conn.remote_system_time,
                                acks |-> conn.acks])
              /\ SentOn("client1").acks = RangeList_new ]_vars

\* C32 witness: two acknowledgements were pending and a packet was sent in
\* two chunks; the first datagram carries both, the second none.
C32_Witness ==
    /\ last.op = "tcpudp_receive"
    /\ last.res = "Ok"
    /\ Len(sent) = 2
    /\ sent[1].packet[1].split_packet_info # None
    /\ sent[1].ack_header # None
    /\ Len(sent[1].ack_header[1].acks) = 2
    /\ sent[2].ack_header = None
    /\ HasBridge("client1")
    /\ Raknet("client1").acks = RangeList_new

\* The bits of an ack-only datagram as described: has_acks 1, the clock, the
\* list, and the has_remote_system_time bit 0.
AckOnlyBits(remote_system_time, acks) ==
    << 1 >> \o WriteLowBytes(write_u32(remote_system_time), 0, 4)
    \o RangeList_serialize(acks) \o << 0 >>

\* A send with no packets on an open connection.
SentNothing(address) ==
    /\ Relayed(address)
    /\ ~Raknet(address).closed
    /\ last'.input.packets = << >>

\* C33: a send with no packets and pending acks hands the socket exactly one
\* datagram, made of has_acks 1, the clock, the list and the
\* has_remote_system_time bit 0, and clears the list; with no pending acks it
\* hands over nothing.  send_acks writes no has_remote_system_time bit: a
\* datagram whose list ends on a byte boundary ends there.
C33_AckOnlyDatagram ==
    [][ SentNothing("client1") =>
          LET conn == Raknet("client1")
          IN IF conn.acks = RangeList_new
             THEN sent' = << >>
             ELSE /\ Len(sent') = 1
                  /\ SentBytes(sent'[1])
                       = BytesOf(AckOnlyBits(conn.remote_system_time, conn.acks))
                  /\ SentOn("client1").acks = RangeList_new ]_vars

\* C34: a sub-packet whose length field holds L bits is read with
\* ceil(L / 8) payload bytes from the next byte boundary on.  The code reads
\* L / 8 bytes, rounded down.
C34_ReadsCeilBytes ==
    unit # None /\ unit.fn = "RaknetPacket::deserialize"
    => /\ unit.read.res = "Ok"
       /\ Len(unit.read.packet.data) = CeilDiv(unit.length, 8)
       /\ unit.read.rest = << >>

\* The step ends the last shim's step: the `for cmd in cmds` loop runs.
AppliesCommands ==
    pc.phase = "retain" /\ todo = {} /\ pc.shim = Len(shims) /\ last'.op = "end_step"

\* The sockets and upstreams of the relays, in the order of `shims`.
Relays(list) == [k \in DOMAIN list |-> << list[k].local_addr, list[k].connect_addr >>]

\* C35: while the shims of an iteration are stepped neither `shims` (as a
\* list of relays) nor `addrs` changes and the commands are only collected;
\* after the last shim's step the shims of the commands are appended in order
\* and their addresses inserted into `addrs`; no relay is removed or moved, and
\* the shim being stepped is never one of this iteration's commands.
C35_RegistryStableInTick ==
    [][ pc.phase # "exited" /\ pc'.phase # "exited" =>
          /\ pc.shim \in DOMAIN shims
          /\ IF AppliesCommands
             THEN /\ Relays(shims') = Relays(shims)
                       \o [j \in DOMAIN cmds |->
                             << cmds[j].shim.local_addr, cmds[j].shim.connect_addr >>]
                  /\ DOMAIN addrs'
                       = DOMAIN addrs \cup { cmds[j].connect_addr : j \in DOMAIN cmds }
                  /\ \A a \in DOMAIN addrs :
                        (\A j \in DOMAIN cmds : cmds[j].connect_addr # a)
                          => addrs'[a] = addrs[a]
                  /\ \A j \in DOMAIN cmds :
                        (\A i \in DOMAIN cmds : cmds[i].connect_addr = cmds[j].connect_addr
                                                  => i <= j)
                          => addrs'[cmds[j].connect_addr] = cmds[j].shim.local_addr
                  /\ cmds' = << >>
                  /\ pc'.shim = 1
             ELSE /\ Relays(shims') = Relays(shims)
                  /\ addrs' = addrs
                  /\ Len(cmds') >= Len(cmds)
                  /\ SubSeq(cmds', 1, Len(cmds)) = cmds
                  /\ pc'.shim \in { pc.shim, pc.shim + 1 } ]_vars

\* C35 witness: a relay started by the scan of the first shim's traffic has
\* been appended and entered into `addrs` at the end of the iteration.
C35_Witness ==
    /\ last.op = "end_step"
    /\ pc = [shim |-> 1, phase |-> "raknet_receive"]
    /\ Len(shims) = 2
    /\ cmds = << >>
    /\ shims[2].connect_addr \in DOMAIN addrs
    /\ addrs[shims[2].connect_addr] = shims[2].local_addr
    /\ shims[2].bridges = << >>

\* C36: the sub-packets process_outgoing_packets makes of packets whose
\* payloads do not begin with 19, given in their order to
\* process_incoming_packets, yield the same packets (reliability and bytes)
\* in the same order; nothing stays held or half assembled.
C36_LoopbackRoundTrip ==
    unit # None /\ unit.fn = "loopback"
    => /\ unit.out = unit.packets
       /\ ~unit.panicked
       /\ ~unit.closed
       /\ unit.recv.out_of_order_packets = << >>
       /\ unit.recv.split_packet_queue = << >>

\* C36 witness: an ordered packet sent in two chunks and two short ones
\* behind it came out as they went in.
C36_Witness ==
    /\ unit # None
    /\ unit.fn = "loopback"
    /\ Len(unit.packets) = 3
    /\ unit.packets[1].reliability = "ReliableOrdered"
    /\ unit.packets[2].reliability = "UnreliableSequenced"
    /\ Len(unit.rak_packets) = 4
    /\ unit.rak_packets[1].split_packet_info # None
    /\ unit.out = unit.packets

\* The datagrams of a send that carry an ack list.
WithAcks(datagrams) == { i \in DOMAIN datagrams : datagrams[i].ack_header # None }

SentLen(datagram) ==
    IF datagram.raw # None THEN Len(datagram.raw[1])
    ELSE IF datagram.packet = None THEN Len(Flushed(SentHeader(datagram))) \div 8
    ELSE Len(RaknetPacket_serialize_head(SentHeader(datagram), datagram.packet[1])) \div 8
         + Len(datagram.packet[1].data)

\* C38: no datagram of a send is longer than MAX_PACKET_SIZE bytes.
\* header_len counts neither the two bits in front of the sub-packet nor, for a
\* packet sent whole, its length field: the longest packet sent whole goes
\* out in a datagram of MAX_PACKET_SIZE + 2 bytes.
C38_DatagramSize ==
    [][ Relayed("client1") =>
          \A i \in DOMAIN sent' : SentLen(sent'[i]) <= MAX_PACKET_SIZE ]_vars

\* C39: a datagram whose sub-packets are chunks with a count above 1 never
\* aborts process_incoming_packets, whatever their index and whatever the count
\* their split id was first seen with.  The code indexes `parts` with the
\* chunk's index unchecked: an index from the length of `parts` on panics.
C39_SplitNeverAborts ==
    [][ /\ Received("client1")
        /\ \A i \in DOMAIN last'.input.rak_packets :
              /\ last'.input.rak_packets[i].split_packet_info # None
              /\ last'.input.rak_packets[i].split_packet_info[1].count > 1
        => /\ last'.res # "panic"
           /\ pc'.phase # "exited"
           /\ HasBridge("client1")' ]_vars

\* A redirect that ends before its port field: 83 5 at the start, 14 as its
\* fourth byte, longer than 8 bytes, shorter than 8 + 35.
ShortRedirect(data) ==
    /\ Len(data) > 8
    /\ Len(data) < 8 + 35
    /\ data[1] = 83
    /\ data[2] = 5
    /\ data[4] = 14

\* The step handed the scanner packets received from the server, a redirect
\* that ends before its port field among them.
ScannedShortRedirect ==
    /\ last'.op = "tcpudp_receive"
    /\ "packets" \in DOMAIN last'.input
    /\ \E i \in DOMAIN last'.input.packets : ShortRedirect(last'.input.packets[i].data)

\* C40: the scan of the packets a server sends never aborts the process: it
\* returns the packets, or an error that tears down the bridge they came to
\* and no other, also for a redirect that ends before its port field.  For a
\* redirect whose host field is shorter than 33 bytes read_fix panics in
\* split_at(33), and the panic ends the process.
C40_ScanNeverAborts ==
    [][ScannedShortRedirect =>
          /\ last'.res # "panic"
          /\ pc'.phase # "exited"
          /\ Len(shims') >= Len(shims)
          /\ (DOMAIN shims[pc.shim].bridges) \ { last'.source }
                \subseteq DOMAIN shims'[pc.shim].bridges]_vars

====
